---- MODULE Spec2Model ----
(***************************************************************************)
(* A model of the table-driven AArch64 single-instruction disassembler.    *)
(*                                                                         *)
(* Representation.  TLC integers are 32-bit signed, so                     *)
(*   - a uint32_t instruction word is the pair <<hi, lo>> of its two       *)
(*     16-bit halves (bits 31..16 and bits 15..0);                         *)
(*   - a 64-bit value (uint64_t address, int64_t imm) is the tuple         *)
(*     <<l0, l1, l2, l3>> of its four 16-bit limbs, least significant      *)
(*     first, in two's complement.                                         *)
(* Enumerations whose values are only compared are modelled by their names *)
(* without the prefix ("LDR" for INST_TYPE_LDR, "X" for REG_TYPE_X, "NONE" *)
(* for ADDR_MODE_NONE); extend_t is kept numeric because the code does     *)
(* arithmetic on it (EXTEND_LSL + shift).                                  *)
(***************************************************************************)
EXTENDS Integers, Sequences, FiniteSets, TLC

VARIABLES
    inst,       \* inst[t]: the raw_inst argument of thread t's current call
    address,    \* address[t]: the address argument
    result,     \* result[t]: the caller's disasm_inst_t that thread t passes
    pc,         \* pc[t]: "off", "idle", "table", "done"
    stage,      \* stage[t]: 0 = top-level table pass, 1..4 = fallback chain
    stack,      \* stack[t]: active decode_with_table frames, innermost last
    ret,        \* ret[t]: value returned by disassemble_arm64
    walks,      \* walks[t]: history of the finished decode_with_table walks
    ncalls,     \* ncalls[t]: calls of disassemble_arm64 started so far
    first,      \* first[t]: <<ret, record>> of the first finished call
    target,     \* target[t]: the caller's *target of get_branch_target
    bt,         \* bt[t]: "none", or the result of the last get_branch_target
    prior,      \* prior[t]: what the record held when the current call began
    interleaved,\* a thread has taken a step while another was inside a call
    used        \* the regs, *count and max_count of a get_used_registers call

vars == <<inst, address, result, pc, stage, stack, ret, walks, ncalls, first,
          target, bt, prior, interleaved, used>>

(* ------------------------------ bounds --------------------------------- *)

\* Threads that call the disassembler concurrently in SpecConc.
NumThreads == 2
\* Calls of disassemble_arm64 one thread makes in a behaviour.
MaxCalls == 2
\* Length of the caller's regs buffer, and the largest max_count it passes.
RegBufLen == 5

Threads == 1..NumThreads

(* ------------------------- 32-bit word helpers ------------------------- *)

W(hi, lo) == <<hi, lo>>

\* A field value v placed at bit position p of a word (v * 2^p < 2^31).
Place(v, p) ==
    IF p >= 16 THEN <<v * 2^(p - 16), 0>>
    ELSE <<(v * 2^p) \div 65536, (v * 2^p) % 65536>>

\* Union of fields that do not overlap.
Plus(a, b) == <<a[1] + b[1], a[2] + b[2]>>

BITS_mutant_off_by_one(val, start, end) ==
    IF end <= 15 THEN (val[2] \div 2^start) % 2^(end - start)
    ELSE IF start >= 16 THEN (val[1] \div 2^(start - 16)) % 2^(end - start)
    ELSE ((val[2] \div 2^start) + (val[1] % 2^(end - 15)) * 2^(16 - start))
             % 2^(end - start)

\* #define BITS(val, start, end) (((val) >> (start)) & ((1ULL << ((end) - (start) + 1)) - 1))
BITS(val, start, end) ==
    IF end <= 15 THEN (val[2] \div 2^start) % 2^(end - start + 1)
    ELSE IF start >= 16 THEN (val[1] \div 2^(start - 16)) % 2^(end - start + 1)
    ELSE (val[2] \div 2^start) + (val[1] % 2^(end - 15)) * 2^(16 - start)

\* #define BIT(val, pos) (((val) >> (pos)) & 1)
BIT(val, pos) == BITS(val, pos, pos)

RECURSIVE And16(_, _, _)
And16(a, b, n) ==
    IF n = 0 \/ a = 0 \/ b = 0 THEN 0
    ELSE (a % 2) * (b % 2) + 2 * And16(a \div 2, b \div 2, n - 1)

\* The C expression (a & b) on uint32_t.
AND32(a, b) == <<And16(a[1], b[1], 16), And16(a[2], b[2], 16)>>

(* ------------------------- 64-bit arithmetic --------------------------- *)

Limb == 2^16

\* (int64_t)n for a non-negative n that fits a TLC integer.
I64(n) == <<n % Limb, (n \div Limb) % Limb, 0, 0>>

LimbAt(x, i, fill) == IF i < 1 THEN 0 ELSE IF i > 4 THEN fill ELSE x[i]

\* x << k on 64 bits (bits shifted out are lost), 0 <= k <= 63.
SHL64(x, k) ==
    LET q == k \div 16
        r == k % 16
    IN  [i \in 1..4 |->
            ((LimbAt(x, i - q, 0) * 2^r) % Limb)
            + (LimbAt(x, i - q - 1, 0) \div 2^(16 - r))]

\* x >> k on int64_t (arithmetic: the sign bit is replicated), 0 <= k <= 63.
SAR64(x, k) ==
    LET q == k \div 16
        r == k % 16
        fill == IF x[4] >= 32768 THEN 65535 ELSE 0
    IN  [i \in 1..4 |->
            (LimbAt(x, i + q, fill) \div 2^r)
            + ((LimbAt(x, i + q + 1, fill) % 2^r) * 2^(16 - r))]

\* a + b modulo 2^64.
ADD64(a, b) ==
    LET s1 == a[1] + b[1]
        s2 == a[2] + b[2] + (s1 \div Limb)
        s3 == a[3] + b[3] + (s2 \div Limb)
        s4 == a[4] + b[4] + (s3 \div Limb)
    IN  <<s1 % Limb, s2 % Limb, s3 % Limb, s4 % Limb>>

SIGN_EXTEND_mutant_zero_extend(val, bits) == I64(val)

\* #define SIGN_EXTEND(val, bits) (((int64_t)(val) << (64 - (bits))) >> (64 - (bits)))
\* (the left shift moves the field's top bit into bit 63; every build of the
\* code computes it in two's complement)
SIGN_EXTEND(val, bits) == SAR64(SHL64(I64(val), 64 - bits), 64 - bits)

(* --------------------------- the record -------------------------------- *)

\* memset(inst, 0, sizeof(disasm_inst_t)): every enum at its value 0.
ZeroInst ==
    [raw |-> W(0, 0), address |-> I64(0), type |-> "UNKNOWN", mnemonic |-> "",
     rd |-> 0, rn |-> 0, rm |-> 0, rt2 |-> 0, ra |-> 0,
     rd_type |-> "X", rn_type |-> "X", rm_type |-> "X",
     imm |-> I64(0), has_imm |-> FALSE, addr_mode |-> "NONE",
     extend_type |-> 0, shift_amount |-> 0, cond |-> 0,
     is_64bit |-> FALSE, set_flags |-> FALSE,
     is_acquire |-> FALSE, is_release |-> FALSE]

init_disasm_inst_mutant_no_memset(old, raw, addr) ==
    [old EXCEPT !.raw = raw, !.address = addr, !.type = "UNKNOWN",
                !.mnemonic = "unknown"]

\* static void init_disasm_inst(disasm_inst_t *inst, uint32_t raw, uint64_t address)
\* `old` is the prior content of *inst.
init_disasm_inst(old, raw, addr) ==
    [ZeroInst EXCEPT !.raw = raw, !.address = addr, !.type = "UNKNOWN",
                     !.mnemonic = "unknown"]

\* What a decoder returns: its bool and the record as it left it.
Ret(ok, r) == [ok |-> ok, r |-> r]

GprBySf(sf) == IF sf = 1 THEN "X" ELSE "W"

(* ------------------------ branch / system decoders ---------------------- *)

decode_uncond_branch_imm(w, addr, res) ==
    LET op == BIT(w, 31)
        imm26 == BITS(w, 0, 25)
        r1 == [res EXCEPT !.imm = SHL64(SIGN_EXTEND(imm26, 26), 2),
                          !.has_imm = TRUE]
    IN  IF op = 0
        THEN Ret(TRUE, [r1 EXCEPT !.mnemonic = "b", !.type = "B"])
        ELSE Ret(TRUE, [r1 EXCEPT !.mnemonic = "bl", !.type = "BL"])

cond_names ==
    <<"eq", "ne", "cs", "cc", "mi", "pl", "vs", "vc",
      "hi", "ls", "ge", "lt", "gt", "le", "al", "nv">>

decode_cond_branch_imm(w, addr, res) ==
    LET imm19 == BITS(w, 5, 23)
        cond == BITS(w, 0, 3)
        r1 == [res EXCEPT !.imm = SHL64(SIGN_EXTEND(imm19, 19), 2),
                          !.has_imm = TRUE, !.type = "B"]
    IN  IF cond < 16
        THEN Ret(TRUE, [r1 EXCEPT !.mnemonic = "b." \o cond_names[cond + 1]])
        ELSE Ret(FALSE, r1)

decode_compare_branch(w, addr, res) ==
    LET sf == BIT(w, 31)
        op == BIT(w, 24)
        imm19 == BITS(w, 5, 23)
        rt == BITS(w, 0, 4)
        r1 == [res EXCEPT !.rd = rt, !.rd_type = GprBySf(sf),
                          !.imm = SHL64(SIGN_EXTEND(imm19, 19), 2),
                          !.has_imm = TRUE, !.is_64bit = (sf = 1)]
    IN  IF op = 0
        THEN Ret(TRUE, [r1 EXCEPT !.mnemonic = "cbz", !.type = "CBZ"])
        ELSE Ret(TRUE, [r1 EXCEPT !.mnemonic = "cbnz", !.type = "CBNZ"])

decode_test_branch(w, addr, res) ==
    LET b5 == BIT(w, 31)
        op == BIT(w, 24)
        b40 == BITS(w, 19, 23)
        imm14 == BITS(w, 5, 18)
        rt == BITS(w, 0, 4)
        bit_pos == b5 * 32 + b40
        r1 == [res EXCEPT !.rd = rt,
                          !.rd_type = IF bit_pos < 32 THEN "W" ELSE "X",
                          !.imm = SHL64(SIGN_EXTEND(imm14, 14), 2),
                          !.shift_amount = bit_pos,
                          !.has_imm = TRUE, !.is_64bit = (bit_pos >= 32)]
    IN  IF op = 0
        THEN Ret(TRUE, [r1 EXCEPT !.mnemonic = "tbz", !.type = "TBZ"])
        ELSE Ret(TRUE, [r1 EXCEPT !.mnemonic = "tbnz", !.type = "TBNZ"])

decode_uncond_branch_reg(w, addr, res) ==
    LET opc == BITS(w, 21, 24)
        op2 == BITS(w, 16, 20)
        op3 == BITS(w, 10, 15)
        rn == BITS(w, 5, 9)
        op4 == BITS(w, 0, 4)
        r1 == [res EXCEPT !.rn = rn, !.rn_type = "X", !.has_imm = FALSE,
                          !.is_64bit = TRUE]
    IN  IF op2 # 31 \/ op4 # 0 THEN Ret(FALSE, r1)
        ELSE IF opc = 0 /\ op3 = 0
        THEN Ret(TRUE, [r1 EXCEPT !.mnemonic = "br", !.type = "BR"])
        ELSE IF opc = 1 /\ op3 = 0
        THEN Ret(TRUE, [r1 EXCEPT !.mnemonic = "blr", !.type = "BLR"])
        ELSE IF opc = 2 /\ op3 = 0
        THEN Ret(TRUE, [r1 EXCEPT !.mnemonic = "ret", !.type = "RET"])
        ELSE IF opc = 4 /\ op3 = 0 /\ rn = 31
        THEN Ret(TRUE, [r1 EXCEPT !.mnemonic = "eret", !.type = "RET"])
        ELSE IF opc = 5 /\ op3 = 0 /\ rn = 31
        THEN Ret(TRUE, [r1 EXCEPT !.mnemonic = "drps", !.type = "RET"])
        ELSE Ret(FALSE, r1)

hint_names == <<"nop", "yield", "wfe", "wfi", "sev", "sevl">>

decode_system(w, addr, res) ==
    LET op0 == BITS(w, 19, 20)
        op1 == BITS(w, 16, 18)
        crn == BITS(w, 12, 15)
        crm == BITS(w, 8, 11)
        op2 == BITS(w, 5, 7)
        rt == BITS(w, 0, 4)
        L == BIT(w, 21)
    IN  IF op0 = 0 /\ op1 = 3 /\ crn = 2 /\ rt = 31 /\ crm = 0 /\ op2 < 6
        THEN Ret(TRUE, [res EXCEPT !.mnemonic = hint_names[op2 + 1],
                                   !.type = "NOP"])
        ELSE IF L = 1 /\ rt # 31
        THEN Ret(TRUE, [res EXCEPT !.rd = rt, !.rd_type = "X",
                                   !.is_64bit = TRUE, !.has_imm = FALSE,
                                   !.mnemonic = "mrs", !.type = "MRS"])
        ELSE Ret(FALSE, res)

\* A table row: DECODE_ENTRY(mask, value, decoder).
Row(mask, value, decoder) == [mask |-> mask, value |-> value, decoder |-> decoder]

branch_decode_table ==
    << Row(W(\h7C00, 0), W(\h1400, 0), "decode_uncond_branch_imm"),
       Row(W(\h7E00, 0), W(\h3400, 0), "decode_compare_branch"),
       Row(W(\h7E00, 0), W(\h3600, 0), "decode_test_branch"),
       Row(W(\hFF00, \h0010), W(\h5400, 0), "decode_cond_branch_imm"),
       Row(W(\hFE00, 0), W(\hD600, 0), "decode_uncond_branch_reg"),
       Row(W(\hFFC0, 0), W(\hD500, 0), "decode_system") >>

(* -------------------------- load / store decoders ----------------------- *)

LsInfo(m, u, t, rt, b) ==
    [mnemonic |-> m, unscaled_name |-> u, type |-> t, reg_type |-> rt,
     is_64bit |-> b]

\* gpr_ls_info[] (and the identical unscaled_info[] of decode_ls_unscaled_imm,
\* which adds the unscaled names), indexed by size_opc + 1; "" marks a
\* size_opc absent from the table.
NoInfo == LsInfo("", "", "UNKNOWN", "X", FALSE)

gpr_ls_info ==
    << LsInfo("strb",  "sturb",  "STRB",  "W", FALSE),
       LsInfo("ldrb",  "ldurb",  "LDRB",  "W", FALSE),
       LsInfo("ldrsb", "ldursb", "LDRSB", "X", TRUE),
       LsInfo("ldrsb", "ldursb", "LDRSB", "W", FALSE),
       LsInfo("strh",  "sturh",  "STRH",  "W", FALSE),
       LsInfo("ldrh",  "ldurh",  "LDRH",  "W", FALSE),
       LsInfo("ldrsh", "ldursh", "LDRSH", "X", TRUE),
       LsInfo("ldrsh", "ldursh", "LDRSH", "W", FALSE),
       LsInfo("str",   "stur",   "STR",   "W", FALSE),
       LsInfo("ldr",   "ldur",   "LDR",   "W", FALSE),
       LsInfo("ldrsw", "ldursw", "LDRSW", "X", TRUE),
       NoInfo,
       LsInfo("str",   "stur",   "STR",   "X", TRUE),
       LsInfo("ldr",   "ldur",   "LDR",   "X", TRUE),
       NoInfo,
       NoInfo >>

find_gpr_ls_info_mutant_never_null(size_opc) ==
    IF gpr_ls_info[size_opc + 1] = NoInfo THEN gpr_ls_info[10]
    ELSE gpr_ls_info[size_opc + 1]

\* find_gpr_ls_info: the entry, or NoInfo for NULL.
find_gpr_ls_info(size_opc) == gpr_ls_info[size_opc + 1]

simd_types == <<"B", "H", "S", "D">>

SpOrX_mutant_always_x(rn) == "X"

\* (rn == 31) ? REG_TYPE_SP : REG_TYPE_X
SpOrX(rn) == IF rn = 31 THEN "SP" ELSE "X"

\* The tail shared by the V == 1 branches of the three single-register forms.
SimdStrLdr(r, size, opc, strName, ldrName) ==
    LET r1 == [r EXCEPT !.rd_type = simd_types[size + 1]]
    IN  IF opc = 0
        THEN Ret(TRUE, [r1 EXCEPT !.mnemonic = strName, !.type = "STR"])
        ELSE IF opc = 1
        THEN Ret(TRUE, [r1 EXCEPT !.mnemonic = ldrName, !.type = "LDR"])
        ELSE Ret(FALSE, r1)

decode_ls_unsigned_imm(w, addr, res) ==
    LET size == BITS(w, 30, 31)
        V == BIT(w, 26)
        opc == BITS(w, 22, 23)
        imm12 == BITS(w, 10, 21)
        rn == BITS(w, 5, 9)
        rt == BITS(w, 0, 4)
        r1 == [res EXCEPT !.rn = rn, !.rd = rt, !.rn_type = SpOrX(rn),
                          !.addr_mode = "IMM_UNSIGNED", !.has_imm = TRUE]
        info == find_gpr_ls_info(size * 4 + opc)
    IN  IF V = 0
        THEN IF info = NoInfo THEN Ret(FALSE, r1)
             ELSE Ret(TRUE, [r1 EXCEPT !.imm = SHL64(I64(imm12), size),
                                       !.mnemonic = info.mnemonic,
                                       !.type = info.type,
                                       !.rd_type = info.reg_type,
                                       !.is_64bit = info.is_64bit])
        ELSE SimdStrLdr([r1 EXCEPT !.imm = SHL64(I64(imm12), size)],
                        size, opc, "str", "ldr")

decode_ls_reg_offset(w, addr, res) ==
    LET size == BITS(w, 30, 31)
        V == BIT(w, 26)
        opc == BITS(w, 22, 23)
        rm == BITS(w, 16, 20)
        option == BITS(w, 13, 15)
        S == BIT(w, 12)
        rn == BITS(w, 5, 9)
        rt == BITS(w, 0, 4)
        r1 == [res EXCEPT
                 !.rn = rn, !.rd = rt, !.rm = rm, !.rn_type = SpOrX(rn),
                 !.has_imm = FALSE, !.extend_type = option,
                 !.shift_amount = IF S # 0 THEN size ELSE 0,
                 !.rm_type = IF option = 3 \/ option = 7 THEN "X" ELSE "W",
                 !.addr_mode = IF option = 8 \/ option = 3
                               THEN "REG_OFFSET" ELSE "REG_EXTEND"]
        info == find_gpr_ls_info(size * 4 + opc)
    IN  IF V = 0
        THEN IF info = NoInfo THEN Ret(FALSE, r1)
             ELSE Ret(TRUE, [r1 EXCEPT !.mnemonic = info.mnemonic,
                                       !.type = info.type,
                                       !.rd_type = info.reg_type,
                                       !.is_64bit = info.is_64bit])
        ELSE SimdStrLdr(r1, size, opc, "str", "ldr")

decode_ls_unscaled_imm(w, addr, res) ==
    LET size == BITS(w, 30, 31)
        V == BIT(w, 26)
        opc == BITS(w, 22, 23)
        imm9 == BITS(w, 12, 20)
        idx == BITS(w, 10, 11)
        rn == BITS(w, 5, 9)
        rt == BITS(w, 0, 4)
        r1 == [res EXCEPT !.imm = SIGN_EXTEND(imm9, 9), !.rn = rn, !.rd = rt,
                          !.rn_type = SpOrX(rn), !.has_imm = TRUE]
        r2 == [r1 EXCEPT !.addr_mode = CASE idx = 0 -> "IMM_SIGNED"
                                         [] idx = 1 -> "POST_INDEX"
                                         [] idx = 3 -> "PRE_INDEX"
                                         [] OTHER -> @]
        info == find_gpr_ls_info(size * 4 + opc)
    IN  IF idx = 2 THEN Ret(FALSE, r1)
        ELSE IF V = 0
        THEN IF info = NoInfo THEN Ret(FALSE, r2)
             ELSE Ret(TRUE, [r2 EXCEPT
                    !.mnemonic = IF idx = 0 THEN info.unscaled_name
                                 ELSE info.mnemonic,
                    !.type = info.type,
                    !.rd_type = info.reg_type,
                    !.is_64bit = info.is_64bit])
        ELSE SimdStrLdr(r2, size, opc,
                        IF idx = 0 THEN "stur" ELSE "str",
                        IF idx = 0 THEN "ldur" ELSE "ldr")

simd_pair_info_mutant_all_s ==
    << [shift |-> 2, type |-> "S"], [shift |-> 2, type |-> "S"],
       [shift |-> 2, type |-> "S"] >>

simd_pair_info == << [shift |-> 2, type |-> "S"], [shift |-> 3, type |-> "D"],
                     [shift |-> 4, type |-> "Q"] >>

decode_ls_pair(w, addr, res) ==
    LET opc == BITS(w, 30, 31)
        V == BIT(w, 26)
        idx == BITS(w, 23, 24)
        L == BIT(w, 22)
        imm7 == BITS(w, 15, 21)
        rt2 == BITS(w, 10, 14)
        rn == BITS(w, 5, 9)
        rt == BITS(w, 0, 4)
        r1 == [res EXCEPT !.rd = rt, !.rt2 = rt2, !.rn = rn,
                          !.rn_type = SpOrX(rn), !.has_imm = TRUE]
        r2 == [r1 EXCEPT !.addr_mode = CASE idx = 1 -> "POST_INDEX"
                                         [] idx = 2 -> "IMM_SIGNED"
                                         [] idx = 3 -> "PRE_INDEX"
                                         [] OTHER -> @]
        pairName == IF L # 0 THEN "ldp" ELSE "stp"
        pairType == IF L # 0 THEN "LDP" ELSE "STP"
        se == SIGN_EXTEND(imm7, 7)
    IN  IF idx = 0 THEN Ret(FALSE, r1)
        ELSE IF V = 0
        THEN CASE opc = 0 ->
                    Ret(TRUE, [r2 EXCEPT !.imm = SHL64(se, 2), !.rd_type = "W",
                                         !.mnemonic = pairName,
                                         !.type = pairType])
               [] opc = 1 ->
                    IF L = 0 THEN Ret(FALSE, r2)
                    ELSE Ret(TRUE, [r2 EXCEPT !.imm = SHL64(se, 2),
                                              !.rd_type = "X",
                                              !.is_64bit = TRUE,
                                              !.mnemonic = "ldpsw",
                                              !.type = "LDP"])
               [] opc = 2 ->
                    Ret(TRUE, [r2 EXCEPT !.imm = SHL64(se, 3), !.rd_type = "X",
                                         !.is_64bit = TRUE,
                                         !.mnemonic = pairName,
                                         !.type = pairType])
               [] OTHER -> Ret(FALSE, r2)
        ELSE IF opc > 2 THEN Ret(FALSE, r2)
        ELSE Ret(TRUE, [r2 EXCEPT
                   !.imm = SHL64(se, simd_pair_info[opc + 1].shift),
                   !.rd_type = simd_pair_info[opc + 1].type,
                   !.mnemonic = pairName, !.type = pairType])

gpr_literal == << [type |-> "W", is_64bit |-> FALSE, name |-> "ldr"],
                  [type |-> "X", is_64bit |-> TRUE,  name |-> "ldr"],
                  [type |-> "X", is_64bit |-> TRUE,  name |-> "ldrsw"] >>

simd_literal == <<"S", "D", "Q">>

decode_load_literal(w, addr, res) ==
    LET opc == BITS(w, 30, 31)
        V == BIT(w, 26)
        imm19 == BITS(w, 5, 23)
        rt == BITS(w, 0, 4)
        r1 == [res EXCEPT !.imm = SHL64(SIGN_EXTEND(imm19, 19), 2),
                          !.rd = rt, !.has_imm = TRUE,
                          !.addr_mode = "LITERAL",
                          !.mnemonic = "ldr", !.type = "LDR"]
    IN  IF opc > 2 THEN Ret(FALSE, r1)
        ELSE IF V = 0
        THEN Ret(TRUE, [r1 EXCEPT
                   !.rd_type = gpr_literal[opc + 1].type,
                   !.is_64bit = gpr_literal[opc + 1].is_64bit,
                   !.mnemonic = gpr_literal[opc + 1].name,
                   !.type = IF opc = 2 THEN "LDRSW" ELSE @])
        ELSE Ret(TRUE, [r1 EXCEPT !.rd_type = simd_literal[opc + 1]])

\* "al" / "a" / "l" / "" from the acquire and release bits.
OrderSuffix(a, l) ==
    IF a # 0 /\ l # 0 THEN "al" ELSE IF a # 0 THEN "a" ELSE IF l # 0 THEN "l"
    ELSE ""

\* "b" / "h" / "" from the size field.
SizeSuffix(size) == IF size = 0 THEN "b" ELSE IF size = 1 THEN "h" ELSE ""

decode_load_store_exclusive(w, addr, res) ==
    LET size == BITS(w, 30, 31)
        o2 == BIT(w, 23)
        L == BIT(w, 22)
        o1 == BIT(w, 21)
        rs == BITS(w, 16, 20)
        o0 == BIT(w, 15)
        rt2 == BITS(w, 10, 14)
        rn == BITS(w, 5, 9)
        rt == BITS(w, 0, 4)
        r1 == [res EXCEPT !.rd = rt, !.rn = rn, !.rm = rs, !.rt2 = rt2,
                          !.rn_type = SpOrX(rn), !.has_imm = FALSE,
                          !.addr_mode = "IMM_UNSIGNED",
                          !.is_64bit = (size = 3),
                          !.rd_type = IF size = 3 THEN "X" ELSE "W",
                          !.rm_type = "W",
                          !.is_acquire = (o0 # 0), !.is_release = (o1 # 0)]
        nt == IF o2 = 0
              THEN IF L = 1
                   THEN IF o1 = 0 /\ o0 = 0 THEN <<"ldxr", "LDXR">>
                        ELSE IF o1 = 0 /\ o0 = 1 THEN <<"ldaxr", "LDAXR">>
                        ELSE IF o1 = 1 /\ o0 = 0 THEN <<"ldxp", "LDXR">>
                        ELSE <<"ldaxp", "LDAXR">>
                   ELSE IF o1 = 0 /\ o0 = 0 THEN <<"stxr", "STXR">>
                        ELSE IF o1 = 0 /\ o0 = 1 THEN <<"stlxr", "STLXR">>
                        ELSE IF o1 = 1 /\ o0 = 0 THEN <<"stxp", "STXR">>
                        ELSE <<"stlxp", "STLXR">>
              ELSE IF L = 1
                   THEN IF o0 = 1 THEN <<"ldar", "LDAR">>
                        ELSE <<"ldlar", "LDAR">>
                   ELSE IF o0 = 1 THEN <<"stlr", "STLR">>
                        ELSE <<"stllr", "STLR">>
        r2 == [r1 EXCEPT !.mnemonic = nt[1] \o SizeSuffix(size),
                         !.type = nt[2],
                         !.rd_type = IF size <= 1 THEN "W" ELSE @]
    IN  Ret(TRUE, r2)

atomic_ops_mutant_min_max_swapped ==
    << <<"ldadd", "LDADD">>, <<"ldclr", "LDCLR">>, <<"ldeor", "LDEOR">>,
       <<"ldset", "LDSET">>, <<"ldsmin", "LDSMIN">>, <<"ldsmax", "LDSMAX">>,
       <<"ldumin", "LDUMIN">>, <<"ldumax", "LDUMAX">> >>

atomic_ops ==
    << <<"ldadd", "LDADD">>, <<"ldclr", "LDCLR">>, <<"ldeor", "LDEOR">>,
       <<"ldset", "LDSET">>, <<"ldsmax", "LDSMAX">>, <<"ldsmin", "LDSMIN">>,
       <<"ldumax", "LDUMAX">>, <<"ldumin", "LDUMIN">> >>

decode_atomic_memory_ops(w, addr, res) ==
    LET size == BITS(w, 30, 31)
        V == BIT(w, 26)
        A == BIT(w, 23)
        R == BIT(w, 22)
        rs == BITS(w, 16, 20)
        o3 == BIT(w, 15)
        opc == BITS(w, 12, 14)
        rn == BITS(w, 5, 9)
        rt == BITS(w, 0, 4)
        rty == IF size = 3 THEN "X" ELSE "W"
        r1 == [res EXCEPT !.rd = rt, !.rn = rn, !.rm = rs,
                          !.rn_type = SpOrX(rn), !.has_imm = FALSE,
                          !.addr_mode = "IMM_UNSIGNED",
                          !.is_acquire = (A # 0), !.is_release = (R # 0),
                          !.is_64bit = (size = 3),
                          !.rd_type = rty, !.rm_type = rty]
        sfx == OrderSuffix(A, R) \o SizeSuffix(size)
    IN  IF V # 0 THEN Ret(FALSE, res)
        ELSE IF o3 = 0
        THEN Ret(TRUE, [r1 EXCEPT !.mnemonic = atomic_ops[opc + 1][1] \o sfx,
                                  !.type = atomic_ops[opc + 1][2]])
        ELSE Ret(TRUE, [r1 EXCEPT !.mnemonic = "swp" \o sfx, !.type = "SWP"])

decode_cas(w, addr, res) ==
    LET size == BITS(w, 30, 31)
        o1 == BIT(w, 22)
        rs == BITS(w, 16, 20)
        o0 == BIT(w, 15)
        rn == BITS(w, 5, 9)
        rt == BITS(w, 0, 4)
        rty == IF size = 3 THEN "X" ELSE "W"
    IN  Ret(TRUE, [res EXCEPT
            !.rd = rt, !.rn = rn, !.rm = rs, !.rn_type = SpOrX(rn),
            !.has_imm = FALSE, !.addr_mode = "IMM_UNSIGNED",
            !.is_acquire = (o0 # 0), !.is_release = (o1 # 0),
            !.type = "CAS", !.is_64bit = (size = 3),
            !.rd_type = rty, !.rm_type = rty,
            !.mnemonic = "cas" \o OrderSuffix(o0, o1) \o SizeSuffix(size)])

load_store_decode_table ==
    << Row(W(\h3F00, 0), W(\h0800, 0), "decode_load_store_exclusive"),
       Row(W(\h3FA0, \h7C00), W(\h08A0, \h7C00), "decode_cas"),
       Row(W(\h3B20, \h0C00), W(\h3820, 0), "decode_atomic_memory_ops"),
       Row(W(\h3A00, 0), W(\h2800, 0), "decode_ls_pair"),
       Row(W(\h3B00, 0), W(\h1800, 0), "decode_load_literal"),
       Row(W(\h3B00, 0), W(\h3900, 0), "decode_ls_unsigned_imm"),
       Row(W(\h3B20, \h0C00), W(\h3820, \h0800), "decode_ls_reg_offset"),
       Row(W(\h3B20, 0), W(\h3800, 0), "decode_ls_unscaled_imm") >>

(* -------------------- data processing (immediate) ----------------------- *)

decode_pc_rel_addr(w, addr, res) ==
    LET op == BIT(w, 31)
        immlo == BITS(w, 29, 30)
        immhi == BITS(w, 5, 23)
        rd == BITS(w, 0, 4)
        imm21 == immhi * 4 + immlo
        r1 == [res EXCEPT !.rd = rd, !.rd_type = "X", !.has_imm = TRUE,
                          !.is_64bit = TRUE]
    IN  IF op = 0
        THEN Ret(TRUE, [r1 EXCEPT !.imm = SIGN_EXTEND(imm21, 21),
                                  !.mnemonic = "adr", !.type = "ADR"])
        ELSE Ret(TRUE, [r1 EXCEPT !.imm = SHL64(SIGN_EXTEND(imm21, 21), 12),
                                  !.mnemonic = "adrp", !.type = "ADRP"])

decode_add_sub_imm(w, addr, res) ==
    LET sf == BIT(w, 31)
        op == BIT(w, 30)
        S == BIT(w, 29)
        shift == BITS(w, 22, 23)
        imm12 == BITS(w, 10, 21)
        rn == BITS(w, 5, 9)
        rd == BITS(w, 0, 4)
        r1 == [res EXCEPT !.rd = rd, !.rn = rn, !.imm = I64(imm12),
                          !.shift_amount = IF shift = 1 THEN 12 ELSE 0,
                          !.has_imm = TRUE, !.is_64bit = (sf # 0),
                          !.set_flags = (S # 0),
                          !.rd_type = GprBySf(sf), !.rn_type = GprBySf(sf)]
        \* if (op == 0) { add/adds, then the MOV alias } else { sub/subs }
        r2 == IF op = 0
              THEN LET a == [r1 EXCEPT
                               !.mnemonic = IF S # 0 THEN "adds" ELSE "add",
                               !.type = IF S # 0 THEN "ADDS" ELSE "ADD"]
                   IN  IF S = 0 /\ imm12 = 0 /\ shift = 0
                       THEN [a EXCEPT !.mnemonic = "mov", !.type = "MOV",
                                      !.has_imm = FALSE, !.rm = rn,
                                      !.rm_type = a.rn_type]
                       ELSE a
              ELSE [r1 EXCEPT !.mnemonic = IF S # 0 THEN "subs" ELSE "sub",
                              !.type = IF S # 0 THEN "SUBS" ELSE "SUB"]
        \* if (S && rd == 31) cmp / cmn
        r3 == IF S # 0 /\ rd = 31
              THEN [r2 EXCEPT !.mnemonic = IF op = 1 THEN "cmp" ELSE "cmn",
                              !.type = IF op = 1 THEN "CMP" ELSE "CMN",
                              !.rd_type = GprBySf(sf)]
              ELSE r2
        \* if (!S) register 31 is the stack pointer
        r4 == IF S = 0
              THEN [r3 EXCEPT !.rn_type = IF rn = 31 THEN "SP" ELSE @,
                              !.rd_type = IF rd = 31 THEN "SP" ELSE @]
              ELSE r3
    IN  IF shift > 1 THEN Ret(FALSE, res) ELSE Ret(TRUE, r4)

decode_logical_imm(w, addr, res) ==
    LET sf == BIT(w, 31)
        opc == BITS(w, 29, 30)
        immr == BITS(w, 16, 21)
        imms == BITS(w, 10, 15)
        rn == BITS(w, 5, 9)
        rd == BITS(w, 0, 4)
        r1 == [res EXCEPT !.imm = I64(immr * 64 + imms), !.rd = rd, !.rn = rn,
                          !.has_imm = TRUE, !.is_64bit = (sf # 0),
                          !.rd_type = GprBySf(sf), !.rn_type = GprBySf(sf)]
    IN  CASE opc = 0 ->
               Ret(TRUE, [r1 EXCEPT !.mnemonic = "and", !.type = "AND"])
          [] opc = 1 ->
               IF rn = 31
               THEN Ret(TRUE, [r1 EXCEPT !.mnemonic = "mov", !.type = "MOV"])
               ELSE Ret(TRUE, [r1 EXCEPT !.mnemonic = "orr", !.type = "ORR"])
          [] opc = 2 ->
               Ret(TRUE, [r1 EXCEPT !.mnemonic = "eor", !.type = "EOR"])
          [] OTHER ->
               Ret(TRUE, [r1 EXCEPT
                     !.mnemonic = IF rd = 31 THEN "tst" ELSE "ands",
                     !.type = "AND", !.set_flags = TRUE])

decode_move_wide_imm(w, addr, res) ==
    LET sf == BIT(w, 31)
        opc == BITS(w, 29, 30)
        hw == BITS(w, 21, 22)
        imm16 == BITS(w, 5, 20)
        rd == BITS(w, 0, 4)
        r1 == [res EXCEPT !.rd = rd, !.imm = I64(imm16),
                          !.shift_amount = hw * 16, !.has_imm = TRUE,
                          !.is_64bit = (sf # 0), !.rd_type = GprBySf(sf)]
    IN  IF sf = 0 /\ hw >= 2 THEN Ret(FALSE, res)
        ELSE CASE opc = 0 ->
                    Ret(TRUE, [r1 EXCEPT !.mnemonic = "movn", !.type = "MOVN"])
               [] opc = 2 ->
                    Ret(TRUE, [r1 EXCEPT !.mnemonic = "movz", !.type = "MOVZ"])
               [] opc = 3 ->
                    Ret(TRUE, [r1 EXCEPT !.mnemonic = "movk", !.type = "MOVK"])
               [] OTHER -> Ret(FALSE, r1)

decode_bitfield(w, addr, res) ==
    LET sf == BIT(w, 31)
        opc == BITS(w, 29, 30)
        N == BIT(w, 22)
        immr == BITS(w, 16, 21)
        imms == BITS(w, 10, 15)
        rn == BITS(w, 5, 9)
        rd == BITS(w, 0, 4)
        top == IF sf # 0 THEN 63 ELSE 31
        r1 == [res EXCEPT !.rd = rd, !.rn = rn, !.has_imm = TRUE,
                          !.is_64bit = (sf # 0),
                          !.rd_type = GprBySf(sf), !.rn_type = GprBySf(sf),
                          !.imm = I64(immr * 64 + imms),
                          !.shift_amount = immr]
    IN  IF N # sf THEN Ret(FALSE, res)
        ELSE CASE opc = 0 ->
                    IF immr # 0 /\ imms = top
                    THEN Ret(TRUE, [r1 EXCEPT !.mnemonic = "asr",
                                              !.type = "ASR"])
                    ELSE Ret(TRUE, [r1 EXCEPT !.mnemonic = "sbfm",
                                              !.type = "LSL"])
               [] opc = 1 ->
                    Ret(TRUE, [r1 EXCEPT !.mnemonic = "bfm", !.type = "LSL"])
               [] opc = 2 ->
                    IF immr = 0 /\ imms < top
                    THEN Ret(TRUE, [r1 EXCEPT !.mnemonic = "lsl",
                                              !.type = "LSL"])
                    ELSE IF imms = top
                    THEN Ret(TRUE, [r1 EXCEPT !.mnemonic = "lsr",
                                              !.type = "LSR"])
                    ELSE Ret(TRUE, [r1 EXCEPT !.mnemonic = "ubfm",
                                              !.type = "LSL"])
               [] OTHER -> Ret(FALSE, r1)

(* --------------------- data processing (register) ----------------------- *)

\* extend_t value EXTEND_LSL.
EXTEND_LSL == 8

decode_add_sub_shifted_reg(w, addr, res) ==
    LET sf == BIT(w, 31)
        op == BIT(w, 30)
        S == BIT(w, 29)
        shift == BITS(w, 22, 23)
        rm == BITS(w, 16, 20)
        imm6 == BITS(w, 10, 15)
        rn == BITS(w, 5, 9)
        rd == BITS(w, 0, 4)
        r1 == [res EXCEPT !.rd = rd, !.rn = rn, !.rm = rm,
                          !.shift_amount = imm6, !.has_imm = FALSE,
                          !.is_64bit = (sf # 0), !.set_flags = (S # 0),
                          !.rd_type = GprBySf(sf), !.rn_type = GprBySf(sf),
                          !.rm_type = GprBySf(sf)]
        r2 == [r1 EXCEPT
                 !.extend_type = EXTEND_LSL + shift,
                 !.mnemonic = IF op = 0
                              THEN (IF S # 0 THEN "adds" ELSE "add")
                              ELSE (IF S # 0 THEN "subs" ELSE "sub"),
                 !.type = IF op = 0
                          THEN (IF S # 0 THEN "ADDS" ELSE "ADD")
                          ELSE (IF S # 0 THEN "SUBS" ELSE "SUB")]
        r3 == IF S # 0 /\ rd = 31
              THEN [r2 EXCEPT !.mnemonic = IF op = 1 THEN "cmp" ELSE "cmn",
                              !.type = IF op = 1 THEN "CMP" ELSE "CMN",
                              !.rd_type = GprBySf(sf)]
              ELSE r2
        r4 == IF op = 1 /\ rn = 31 /\ S = 0
              THEN [r3 EXCEPT !.mnemonic = "neg", !.rn_type = GprBySf(sf)]
              ELSE r3
        r5 == IF S = 0 /\ ~(op = 1 /\ rn = 31 /\ rd # 31)
              THEN [r4 EXCEPT !.rn_type = IF rn = 31 THEN "SP" ELSE @,
                              !.rd_type = IF rd = 31 THEN "SP" ELSE @]
              ELSE r4
    IN  IF shift = 3 THEN Ret(FALSE, r1) ELSE Ret(TRUE, r5)

decode_logical_shifted_reg(w, addr, res) ==
    LET sf == BIT(w, 31)
        opc == BITS(w, 29, 30)
        shift == BITS(w, 22, 23)
        N == BIT(w, 21)
        rm == BITS(w, 16, 20)
        imm6 == BITS(w, 10, 15)
        rn == BITS(w, 5, 9)
        rd == BITS(w, 0, 4)
        r1 == [res EXCEPT !.rd = rd, !.rn = rn, !.rm = rm,
                          !.shift_amount = imm6, !.has_imm = FALSE,
                          !.is_64bit = (sf # 0),
                          !.rd_type = GprBySf(sf), !.rn_type = GprBySf(sf),
                          !.rm_type = GprBySf(sf),
                          !.extend_type = EXTEND_LSL + shift]
        op_code == opc * 2 + N
    IN  CASE op_code = 0 ->
               Ret(TRUE, [r1 EXCEPT !.mnemonic = "and", !.type = "AND"])
          [] op_code = 1 ->
               Ret(TRUE, [r1 EXCEPT !.mnemonic = "bic", !.type = "AND"])
          [] op_code = 2 ->
               IF rn = 31 /\ imm6 = 0 /\ shift = 0
               THEN Ret(TRUE, [r1 EXCEPT !.mnemonic = "mov", !.type = "MOV"])
               ELSE Ret(TRUE, [r1 EXCEPT !.mnemonic = "orr", !.type = "ORR"])
          [] op_code = 3 ->
               Ret(TRUE, [r1 EXCEPT
                     !.mnemonic = IF rn = 31 THEN "mvn" ELSE "orn",
                     !.type = "ORR"])
          [] op_code = 4 ->
               Ret(TRUE, [r1 EXCEPT !.mnemonic = "eor", !.type = "EOR"])
          [] op_code = 5 ->
               Ret(TRUE, [r1 EXCEPT !.mnemonic = "eon", !.type = "EOR"])
          [] op_code = 6 ->
               Ret(TRUE, [r1 EXCEPT
                     !.mnemonic = IF rd = 31 THEN "tst" ELSE "ands",
                     !.type = "AND", !.set_flags = TRUE])
          [] OTHER ->
               Ret(TRUE, [r1 EXCEPT !.mnemonic = "bics", !.type = "AND",
                                    !.set_flags = TRUE])

decode_data_proc_2src(w, addr, res) ==
    LET sf == BIT(w, 31)
        S == BIT(w, 29)
        rm == BITS(w, 16, 20)
        opcode == BITS(w, 10, 15)
        rn == BITS(w, 5, 9)
        rd == BITS(w, 0, 4)
        r1 == [res EXCEPT !.rd = rd, !.rn = rn, !.rm = rm, !.has_imm = FALSE,
                          !.is_64bit = (sf # 0),
                          !.rd_type = GprBySf(sf), !.rn_type = GprBySf(sf),
                          !.rm_type = GprBySf(sf)]
    IN  IF S # 0 THEN Ret(FALSE, res)
        ELSE CASE opcode = 2 ->
                    Ret(TRUE, [r1 EXCEPT !.mnemonic = "udiv", !.type = "UDIV"])
               [] opcode = 3 ->
                    Ret(TRUE, [r1 EXCEPT !.mnemonic = "sdiv", !.type = "SDIV"])
               [] opcode = 8 ->
                    Ret(TRUE, [r1 EXCEPT !.mnemonic = "lsl", !.type = "LSL"])
               [] opcode = 9 ->
                    Ret(TRUE, [r1 EXCEPT !.mnemonic = "lsr", !.type = "LSR"])
               [] opcode = 10 ->
                    Ret(TRUE, [r1 EXCEPT !.mnemonic = "asr", !.type = "ASR"])
               [] opcode = 11 ->
                    \* INST_TYPE_ASR + 1 is INST_TYPE_ROR in inst_type_t
                    Ret(TRUE, [r1 EXCEPT !.mnemonic = "ror", !.type = "ROR"])
               [] OTHER -> Ret(FALSE, r1)

decode_data_proc_3src(w, addr, res) ==
    LET sf == BIT(w, 31)
        op54 == BITS(w, 29, 30)
        op31 == BITS(w, 21, 23)
        rm == BITS(w, 16, 20)
        o0 == BIT(w, 15)
        ra == BITS(w, 10, 14)
        rn == BITS(w, 5, 9)
        rd == BITS(w, 0, 4)
        r1 == [res EXCEPT !.rd = rd, !.rn = rn, !.rm = rm, !.ra = ra,
                          !.has_imm = FALSE, !.is_64bit = (sf # 0),
                          !.rd_type = GprBySf(sf), !.rn_type = GprBySf(sf),
                          !.rm_type = GprBySf(sf)]
        opcode == op31 * 2 + o0
    IN  IF op54 # 0 THEN Ret(FALSE, res)
        ELSE CASE opcode = 0 ->
                    IF ra = 31
                    THEN Ret(TRUE, [r1 EXCEPT !.mnemonic = "mul",
                                              !.type = "MUL"])
                    ELSE Ret(TRUE, [r1 EXCEPT !.mnemonic = "madd",
                                              !.type = "MADD"])
               [] opcode = 1 ->
                    Ret(TRUE, [r1 EXCEPT
                          !.mnemonic = IF ra = 31 THEN "mneg" ELSE "msub",
                          !.type = "MSUB"])
               [] OTHER -> Ret(FALSE, r1)

InvertCond_mutant_identity(cond) == cond

\* cond ^ 1
InvertCond(cond) == IF cond % 2 = 0 THEN cond + 1 ELSE cond - 1

decode_cond_select(w, addr, res) ==
    LET sf == BIT(w, 31)
        op == BIT(w, 30)
        S == BIT(w, 29)
        rm == BITS(w, 16, 20)
        cond == BITS(w, 12, 15)
        op2 == BITS(w, 10, 11)
        rn == BITS(w, 5, 9)
        rd == BITS(w, 0, 4)
        r1 == [res EXCEPT !.rd = rd, !.rn = rn, !.rm = rm, !.cond = cond,
                          !.has_imm = FALSE, !.is_64bit = (sf # 0),
                          !.rd_type = GprBySf(sf), !.rn_type = GprBySf(sf),
                          !.rm_type = GprBySf(sf)]
        opcode == op * 2 + op2
        both31 == rm = 31 /\ rn = 31
        same == rm = rn /\ cond # 14 /\ cond # 15
        alias(m, t) == [r1 EXCEPT !.mnemonic = m, !.type = t,
                                  !.cond = InvertCond(cond)]
        plain(m, t) == [r1 EXCEPT !.mnemonic = m, !.type = t]
    IN  IF S # 0 \/ op2 > 1 THEN Ret(FALSE, res)
        ELSE CASE opcode = 0 -> Ret(TRUE, plain("csel", "CSEL"))
               [] opcode = 1 ->
                    IF both31 THEN Ret(TRUE, alias("cset", "CSET"))
                    ELSE IF same THEN Ret(TRUE, alias("cinc", "CINC"))
                    ELSE Ret(TRUE, plain("csinc", "CSINC"))
               [] opcode = 2 ->
                    IF both31 THEN Ret(TRUE, alias("csetm", "CSETM"))
                    ELSE IF same THEN Ret(TRUE, alias("cinv", "CINV"))
                    ELSE Ret(TRUE, plain("csinv", "CSINV"))
               [] OTHER ->
                    IF same THEN Ret(TRUE, alias("cneg", "CNEG"))
                    ELSE Ret(TRUE, plain("csneg", "CSNEG"))

decode_data_proc_1src(w, addr, res) ==
    LET sf == BIT(w, 31)
        S == BIT(w, 29)
        opcode2 == BITS(w, 16, 20)
        opcode == BITS(w, 10, 15)
        rn == BITS(w, 5, 9)
        rd == BITS(w, 0, 4)
        r1 == [res EXCEPT !.rd = rd, !.rn = rn, !.has_imm = FALSE,
                          !.is_64bit = (sf # 0),
                          !.rd_type = GprBySf(sf), !.rn_type = GprBySf(sf)]
    IN  IF S # 0 \/ opcode2 # 0 THEN Ret(FALSE, res)
        ELSE CASE opcode = 0 ->
                    Ret(TRUE, [r1 EXCEPT !.mnemonic = "rbit", !.type = "RBIT"])
               [] opcode = 1 ->
                    Ret(TRUE, [r1 EXCEPT !.mnemonic = "rev16",
                                         !.type = "REV16"])
               [] opcode = 2 ->
                    IF sf # 0
                    THEN Ret(TRUE, [r1 EXCEPT !.mnemonic = "rev32",
                                              !.type = "REV32"])
                    ELSE Ret(TRUE, [r1 EXCEPT !.mnemonic = "rev",
                                              !.type = "REV"])
               [] opcode = 3 ->
                    IF sf = 0 THEN Ret(FALSE, r1)
                    ELSE Ret(TRUE, [r1 EXCEPT !.mnemonic = "rev",
                                              !.type = "REV"])
               [] opcode = 4 ->
                    Ret(TRUE, [r1 EXCEPT !.mnemonic = "clz", !.type = "CLZ"])
               [] opcode = 5 ->
                    Ret(TRUE, [r1 EXCEPT !.mnemonic = "cls", !.type = "CLS"])
               [] OTHER -> Ret(FALSE, r1)

decode_extract(w, addr, res) ==
    LET sf == BIT(w, 31)
        N == BIT(w, 22)
        rm == BITS(w, 16, 20)
        imms == BITS(w, 10, 15)
        rn == BITS(w, 5, 9)
        rd == BITS(w, 0, 4)
        r1 == [res EXCEPT !.rd = rd, !.rn = rn, !.rm = rm, !.imm = I64(imms),
                          !.has_imm = TRUE, !.is_64bit = (sf # 0),
                          !.rd_type = GprBySf(sf), !.rn_type = GprBySf(sf),
                          !.rm_type = GprBySf(sf)]
    IN  IF sf # N \/ (sf = 0 /\ imms >= 32) THEN Ret(FALSE, res)
        ELSE IF rn = rm
        THEN Ret(TRUE, [r1 EXCEPT !.mnemonic = "ror", !.type = "ROR"])
        ELSE Ret(TRUE, [r1 EXCEPT !.mnemonic = "extr", !.type = "EXTR"])

data_proc_imm_decode_table ==
    << Row(W(\h1F00, 0), W(\h1000, 0), "decode_pc_rel_addr"),
       Row(W(\h1F00, 0), W(\h1100, 0), "decode_add_sub_imm"),
       Row(W(\h1F80, 0), W(\h1200, 0), "decode_logical_imm"),
       Row(W(\h1F80, 0), W(\h1280, 0), "decode_move_wide_imm"),
       Row(W(\h1F80, 0), W(\h1300, 0), "decode_bitfield"),
       Row(W(\h7FA0, 0), W(\h1380, 0), "decode_extract") >>

data_proc_reg_decode_table ==
    << Row(W(\h1F00, 0), W(\h0A00, 0), "decode_logical_shifted_reg"),
       Row(W(\h1F20, 0), W(\h0B00, 0), "decode_add_sub_shifted_reg"),
       Row(W(\h1FE0, 0), W(\h1A80, 0), "decode_cond_select"),
       Row(W(\h5FE0, 0), W(\h5AC0, 0), "decode_data_proc_1src"),
       Row(W(\h5FE0, 0), W(\h1AC0, 0), "decode_data_proc_2src"),
       Row(W(\h1F00, 0), W(\h1B00, 0), "decode_data_proc_3src") >>

(* ------------------------- floating point / SIMD ------------------------ *)

get_fp_reg_type(ftype) ==
    CASE ftype = 0 -> "S" [] ftype = 1 -> "D" [] ftype = 3 -> "H"
      [] OTHER -> "S"

\* fp_1src_ops[]: opcode -> <<name, type>>; <<>> for an opcode not listed.
fp_1src_ops(opcode) ==
    CASE opcode = 0 -> <<"fmov", "FMOV">>
      [] opcode = 1 -> <<"fabs", "FABS">>
      [] opcode = 2 -> <<"fneg", "FNEG">>
      [] opcode = 3 -> <<"fsqrt", "FSQRT">>
      [] opcode \in {4, 5, 7} -> <<"fcvt", "FCVT">>
      [] opcode = 8 -> <<"frintn", "FRINT">>
      [] opcode = 9 -> <<"frintp", "FRINT">>
      [] opcode = 10 -> <<"frintm", "FRINT">>
      [] opcode = 11 -> <<"frintz", "FRINT">>
      [] opcode = 12 -> <<"frinta", "FRINT">>
      [] opcode = 14 -> <<"frintx", "FRINT">>
      [] opcode = 15 -> <<"frinti", "FRINT">>
      [] OTHER -> <<>>

decode_fp_data_proc_1src(w, addr, res) ==
    LET M == BIT(w, 31)
        S == BIT(w, 29)
        ftype == BITS(w, 22, 23)
        opcode == BITS(w, 15, 20)
        rn == BITS(w, 5, 9)
        rd == BITS(w, 0, 4)
        r1 == [res EXCEPT !.rd = rd, !.rn = rn, !.has_imm = FALSE,
                          !.rd_type = get_fp_reg_type(ftype),
                          !.rn_type = get_fp_reg_type(ftype)]
        e == fp_1src_ops(opcode)
        opc == opcode % 4
    IN  IF M # 0 \/ S # 0 THEN Ret(FALSE, res)
        ELSE IF e = <<>> THEN Ret(FALSE, r1)
        ELSE Ret(TRUE, [r1 EXCEPT
                   !.mnemonic = e[1], !.type = e[2],
                   !.rd_type = IF opcode >= 4 /\ opcode <= 7
                               THEN CASE opc = 0 -> "S" [] opc = 1 -> "D"
                                      [] opc = 3 -> "H" [] OTHER -> @
                               ELSE @])

fp_2src_ops ==
    << <<"fmul", "FMUL">>, <<"fdiv", "FDIV">>, <<"fadd", "FADD">>,
       <<"fsub", "FSUB">>, <<"fmax", "FMAX">>, <<"fmin", "FMIN">>,
       <<"fmaxnm", "FMAX">>, <<"fminnm", "FMIN">>, <<"fnmul", "FMUL">> >>

decode_fp_data_proc_2src(w, addr, res) ==
    LET M == BIT(w, 31)
        S == BIT(w, 29)
        ftype == BITS(w, 22, 23)
        rm == BITS(w, 16, 20)
        opcode == BITS(w, 12, 15)
        rn == BITS(w, 5, 9)
        rd == BITS(w, 0, 4)
        r1 == [res EXCEPT !.rd = rd, !.rn = rn, !.rm = rm, !.has_imm = FALSE,
                          !.rd_type = get_fp_reg_type(ftype),
                          !.rn_type = get_fp_reg_type(ftype),
                          !.rm_type = get_fp_reg_type(ftype)]
    IN  IF M # 0 \/ S # 0 THEN Ret(FALSE, res)
        ELSE IF opcode > 8 THEN Ret(FALSE, r1)
        ELSE Ret(TRUE, [r1 EXCEPT !.mnemonic = fp_2src_ops[opcode + 1][1],
                                  !.type = fp_2src_ops[opcode + 1][2]])

fp_3src_ops ==
    << <<"fmadd", "FMADD">>, <<"fmsub", "FMSUB">>, <<"fnmadd", "FNMADD">>,
       <<"fnmsub", "FNMSUB">> >>

decode_fp_data_proc_3src(w, addr, res) ==
    LET M == BIT(w, 31)
        S == BIT(w, 29)
        ftype == BITS(w, 22, 23)
        o1 == BIT(w, 21)
        rm == BITS(w, 16, 20)
        o0 == BIT(w, 15)
        ra == BITS(w, 10, 14)
        rn == BITS(w, 5, 9)
        rd == BITS(w, 0, 4)
        op == o1 * 2 + o0
    IN  IF M # 0 \/ S # 0 THEN Ret(FALSE, res)
        ELSE Ret(TRUE, [res EXCEPT
                   !.rd = rd, !.rn = rn, !.rm = rm, !.ra = ra,
                   !.has_imm = FALSE,
                   !.rd_type = get_fp_reg_type(ftype),
                   !.rn_type = get_fp_reg_type(ftype),
                   !.rm_type = get_fp_reg_type(ftype),
                   !.mnemonic = fp_3src_ops[op + 1][1],
                   !.type = fp_3src_ops[op + 1][2]])

decode_fp_compare(w, addr, res) ==
    LET M == BIT(w, 31)
        S == BIT(w, 29)
        ftype == BITS(w, 22, 23)
        rm == BITS(w, 16, 20)
        op == BITS(w, 14, 15)
        rn == BITS(w, 5, 9)
        opcode2 == BITS(w, 0, 4)
        r1 == [res EXCEPT !.rn = rn, !.rm = rm, !.has_imm = FALSE,
                          !.rn_type = get_fp_reg_type(ftype),
                          !.rm_type = get_fp_reg_type(ftype),
                          !.type = "FCMP"]
    IN  IF M # 0 \/ S # 0 \/ op # 0 THEN Ret(FALSE, res)
        ELSE CASE opcode2 = 0 ->
                    Ret(TRUE, [r1 EXCEPT !.mnemonic = "fcmp", !.type = "FCMP"])
               [] opcode2 = 8 ->
                    Ret(TRUE, [r1 EXCEPT !.mnemonic = "fcmp", !.type = "FCMP",
                                         !.has_imm = TRUE, !.imm = I64(0)])
               [] opcode2 = 16 ->
                    Ret(TRUE, [r1 EXCEPT !.mnemonic = "fcmpe",
                                         !.type = "FCMPE"])
               [] opcode2 = 24 ->
                    Ret(TRUE, [r1 EXCEPT !.mnemonic = "fcmpe",
                                         !.type = "FCMPE",
                                         !.has_imm = TRUE, !.imm = I64(0)])
               [] OTHER -> Ret(FALSE, r1)

decode_fp_cond_compare(w, addr, res) ==
    LET M == BIT(w, 31)
        S == BIT(w, 29)
        ftype == BITS(w, 22, 23)
        rm == BITS(w, 16, 20)
        cond == BITS(w, 12, 15)
        rn == BITS(w, 5, 9)
        op == BIT(w, 4)
        nzcv == BITS(w, 0, 3)
    IN  IF M # 0 \/ S # 0 THEN Ret(FALSE, res)
        ELSE Ret(TRUE, [res EXCEPT
                   !.rn = rn, !.rm = rm, !.cond = cond, !.imm = I64(nzcv),
                   !.has_imm = TRUE,
                   !.rn_type = get_fp_reg_type(ftype),
                   !.rm_type = get_fp_reg_type(ftype),
                   !.type = "FCCMP",
                   !.mnemonic = IF op # 0 THEN "fccmpe" ELSE "fccmp"])

decode_fp_cond_select(w, addr, res) ==
    LET M == BIT(w, 31)
        S == BIT(w, 29)
        ftype == BITS(w, 22, 23)
        rm == BITS(w, 16, 20)
        cond == BITS(w, 12, 15)
        rn == BITS(w, 5, 9)
        rd == BITS(w, 0, 4)
    IN  IF M # 0 \/ S # 0 THEN Ret(FALSE, res)
        ELSE Ret(TRUE, [res EXCEPT
                   !.rd = rd, !.rn = rn, !.rm = rm, !.cond = cond,
                   !.has_imm = FALSE,
                   !.rd_type = get_fp_reg_type(ftype),
                   !.rn_type = get_fp_reg_type(ftype),
                   !.rm_type = get_fp_reg_type(ftype),
                   !.type = "FCSEL", !.mnemonic = "fcsel"])

\* The switch of decode_fp_int_conv on op = (rmode << 3) | opcode:
\* <<mnemonic, type, destination is the general-purpose register>>.
fp_int_conv_ops(op) ==
    CASE op = 24 -> <<"fcvtzs", "FCVTZS", TRUE>>
      [] op = 25 -> <<"fcvtzu", "FCVTZU", TRUE>>
      [] op = 2 -> <<"scvtf", "SCVTF", FALSE>>
      [] op = 3 -> <<"ucvtf", "UCVTF", FALSE>>
      [] op = 6 -> <<"fmov", "FMOV", FALSE>>
      [] op = 7 -> <<"fmov", "FMOV", TRUE>>
      [] op = 0 -> <<"fcvtns", "FCVTZS", TRUE>>
      [] op = 1 -> <<"fcvtnu", "FCVTZU", TRUE>>
      [] op = 8 -> <<"fcvtps", "FCVTZS", TRUE>>
      [] op = 9 -> <<"fcvtpu", "FCVTZU", TRUE>>
      [] op = 16 -> <<"fcvtms", "FCVTZS", TRUE>>
      [] op = 17 -> <<"fcvtmu", "FCVTZU", TRUE>>
      [] op = 4 -> <<"fcvtas", "FCVTZS", TRUE>>
      [] op = 5 -> <<"fcvtau", "FCVTZU", TRUE>>
      [] OTHER -> <<>>

decode_fp_int_conv(w, addr, res) ==
    LET sf == BIT(w, 31)
        S == BIT(w, 29)
        ftype == BITS(w, 22, 23)
        rmode == BITS(w, 19, 20)
        opcode == BITS(w, 16, 18)
        rn == BITS(w, 5, 9)
        rd == BITS(w, 0, 4)
        r1 == [res EXCEPT !.rd = rd, !.rn = rn, !.has_imm = FALSE]
        fp_type == get_fp_reg_type(ftype)
        gpr_type == GprBySf(sf)
        e == fp_int_conv_ops(rmode * 8 + opcode)
    IN  IF S # 0 THEN Ret(FALSE, res)
        ELSE IF e = <<>> THEN Ret(FALSE, r1)
        ELSE Ret(TRUE, [r1 EXCEPT
                   !.mnemonic = e[1], !.type = e[2],
                   !.rd_type = IF e[3] THEN gpr_type ELSE fp_type,
                   !.rn_type = IF e[3] THEN fp_type ELSE gpr_type,
                   !.is_64bit = (sf # 0)])

decode_fp_imm(w, addr, res) ==
    LET M == BIT(w, 31)
        S == BIT(w, 29)
        ftype == BITS(w, 22, 23)
        imm8 == BITS(w, 13, 20)
        imm5 == BITS(w, 5, 9)
        rd == BITS(w, 0, 4)
    IN  IF M # 0 \/ S # 0 \/ imm5 # 0 THEN Ret(FALSE, res)
        ELSE Ret(TRUE, [res EXCEPT
                   !.rd = rd, !.imm = I64(imm8), !.has_imm = TRUE,
                   !.rd_type = get_fp_reg_type(ftype),
                   !.type = "FMOV", !.mnemonic = "fmov"])

decode_simd_scalar_dup(w, addr, res) ==
    LET imm5 == BITS(w, 16, 20)
        imm4 == BITS(w, 11, 14)
        rn == BITS(w, 5, 9)
        rd == BITS(w, 0, 4)
        r1 == [res EXCEPT !.rd = rd, !.rn = rn, !.has_imm = FALSE]
        fin(t, i) == Ret(TRUE, [r1 EXCEPT !.rd_type = t, !.imm = I64(i),
                                          !.rn_type = "V", !.has_imm = TRUE,
                                          !.type = "MOV", !.mnemonic = "dup"])
    IN  IF imm4 # 0 THEN Ret(FALSE, res)
        ELSE IF imm5 % 2 = 1 THEN fin("B", (imm5 \div 2) % 16)
        ELSE IF (imm5 \div 2) % 2 = 1 THEN fin("H", (imm5 \div 4) % 8)
        ELSE IF (imm5 \div 4) % 2 = 1 THEN fin("S", (imm5 \div 8) % 4)
        ELSE IF (imm5 \div 8) % 2 = 1 THEN fin("D", (imm5 \div 16) % 2)
        ELSE Ret(FALSE, r1)

size_to_type == <<"B", "H", "S", "D">>

\* simd_scalar_ops[]: first entry whose op matches; "" when none does.
simd_scalar_ops(op) ==
    CASE op = 16 -> "add"    [] op = 48 -> "sub"    [] op = 27 -> "fmulx"
      [] op = 28 -> "fcmeq"  [] op = 31 -> "frecps" [] op = 60 -> "fcmge"
      [] op = 61 -> "facge"  [] op = 63 -> "frsqrts" [] op = 26 -> "fadd"
      [] op = 58 -> "fsub"   [] op = 30 -> "fmax"   [] op = 62 -> "fmin"
      [] op = 29 -> "fmul"
      [] OTHER -> ""

decode_simd_scalar_3same(w, addr, res) ==
    LET U == BIT(w, 29)
        size == BITS(w, 22, 23)
        rm == BITS(w, 16, 20)
        opcode == BITS(w, 11, 15)
        rn == BITS(w, 5, 9)
        rd == BITS(w, 0, 4)
        r1 == [res EXCEPT !.rd = rd, !.rn = rn, !.rm = rm, !.has_imm = FALSE,
                          !.rd_type = size_to_type[size + 1],
                          !.rn_type = size_to_type[size + 1],
                          !.rm_type = size_to_type[size + 1]]
        name == simd_scalar_ops(U * 32 + opcode)
    IN  IF name = "" THEN Ret(FALSE, r1)
        ELSE Ret(TRUE, [r1 EXCEPT !.mnemonic = name, !.type = "ADD"])

\* scalar_2reg_ops[]: the name for op; "" when none matches.
scalar_2reg_ops(op) ==
    CASE op = 3 -> "suqadd"  [] op = 7 -> "sqabs"   [] op = 8 -> "cmgt"
      [] op = 9 -> "cmeq"    [] op = 10 -> "cmlt"   [] op = 11 -> "abs"
      [] op = 12 -> "fcmgt"  [] op = 13 -> "fcmeq"  [] op = 14 -> "fcmlt"
      [] op = 26 -> "fcvtns" [] op = 27 -> "fcvtms" [] op = 28 -> "fcvtas"
      [] op = 29 -> "scvtf"  [] op = 35 -> "usqadd" [] op = 39 -> "sqneg"
      [] op = 40 -> "cmge"   [] op = 41 -> "cmle"   [] op = 43 -> "neg"
      [] op = 44 -> "fcmge"  [] op = 45 -> "fcmle"  [] op = 58 -> "fcvtpu"
      [] op = 59 -> "fcvtzu" [] op = 61 -> "ucvtf"
      [] OTHER -> ""

decode_simd_scalar_2reg_misc(w, addr, res) ==
    LET U == BIT(w, 29)
        size == BITS(w, 22, 23)
        opcode == BITS(w, 12, 16)
        rn == BITS(w, 5, 9)
        rd == BITS(w, 0, 4)
        r1 == [res EXCEPT !.rd = rd, !.rn = rn, !.has_imm = FALSE,
                          !.rd_type = size_to_type[size + 1],
                          !.rn_type = size_to_type[size + 1]]
        name == scalar_2reg_ops(U * 32 + opcode)
    IN  IF name = "" THEN Ret(FALSE, r1)
        ELSE Ret(TRUE, [r1 EXCEPT !.mnemonic = name, !.type = "MOV"])

fp_simd_decode_table ==
    << Row(W(\h5F20, \h3C00), W(\h1E20, \h2000), "decode_fp_compare"),
       Row(W(\h5F20, \h0C00), W(\h1E20, \h0400), "decode_fp_cond_compare"),
       Row(W(\h5F20, \h0C00), W(\h1E20, \h0C00), "decode_fp_cond_select"),
       Row(W(\h5F20, \h0C00), W(\h1E20, \h0800), "decode_fp_data_proc_2src"),
       Row(W(\h5F20, \h7C00), W(\h1E20, \h4000), "decode_fp_data_proc_1src"),
       Row(W(\h5F20, \h1C00), W(\h1E20, \h1000), "decode_fp_imm"),
       Row(W(\h5F20, \hFC00), W(\h1E20, 0), "decode_fp_int_conv"),
       Row(W(\h5F00, 0), W(\h1F00, 0), "decode_fp_data_proc_3src"),
       Row(W(\hFFE0, \hFC00), W(\h5E00, \h0400), "decode_simd_scalar_dup"),
       Row(W(\hDF20, \h0400), W(\h5E20, \h0400), "decode_simd_scalar_3same"),
       Row(W(\hDF3E, \h0C00), W(\h5E20, \h0800),
           "decode_simd_scalar_2reg_misc") >>

(* ------------------------------ dispatch -------------------------------- *)

top_level_decode_table_mutant_no_branch_row ==
    << Row(W(\h1C00, 0), W(\h1000, 0), "dispatch_data_proc_imm"),
       Row(W(\h0A00, 0), W(\h0800, 0), "dispatch_load_store"),
       Row(W(\h1C00, 0), W(\h1800, 0), "dispatch_load_store"),
       Row(W(\h0E00, 0), W(\h0A00, 0), "dispatch_data_proc_reg") >>

top_level_decode_table ==
    << Row(W(\h1C00, 0), W(\h1000, 0), "dispatch_data_proc_imm"),
       Row(W(\h1C00, 0), W(\h1400, 0), "dispatch_branch"),
       Row(W(\h0A00, 0), W(\h0800, 0), "dispatch_load_store"),
       Row(W(\h1C00, 0), W(\h1800, 0), "dispatch_load_store"),
       Row(W(\h0E00, 0), W(\h0A00, 0), "dispatch_data_proc_reg") >>

\* The table behind a table name.
TableOf(name) ==
    CASE name = "top_level_decode_table" -> top_level_decode_table
      [] name = "branch_decode_table" -> branch_decode_table
      [] name = "load_store_decode_table" -> load_store_decode_table
      [] name = "data_proc_imm_decode_table" -> data_proc_imm_decode_table
      [] name = "data_proc_reg_decode_table" -> data_proc_reg_decode_table
      [] name = "fp_simd_decode_table" -> fp_simd_decode_table

Dispatchers ==
    {"dispatch_data_proc_imm", "dispatch_data_proc_reg", "dispatch_branch",
     "dispatch_load_store"}

\* dispatch_X calls decode_X, which walks X's table.
SubTable(decoder) ==
    CASE decoder = "dispatch_data_proc_imm" -> "data_proc_imm_decode_table"
      [] decoder = "dispatch_data_proc_reg" -> "data_proc_reg_decode_table"
      [] decoder = "dispatch_branch" -> "branch_decode_table"
      [] decoder = "dispatch_load_store" -> "load_store_decode_table"

\* table[i].decoder(inst, addr, result) for a row whose decoder is a leaf.
CallLeaf(name, w, addr, res) ==
    CASE name = "decode_uncond_branch_imm" -> decode_uncond_branch_imm(w, addr, res)
      [] name = "decode_compare_branch" -> decode_compare_branch(w, addr, res)
      [] name = "decode_test_branch" -> decode_test_branch(w, addr, res)
      [] name = "decode_cond_branch_imm" -> decode_cond_branch_imm(w, addr, res)
      [] name = "decode_uncond_branch_reg" -> decode_uncond_branch_reg(w, addr, res)
      [] name = "decode_system" -> decode_system(w, addr, res)
      [] name = "decode_load_store_exclusive" -> decode_load_store_exclusive(w, addr, res)
      [] name = "decode_cas" -> decode_cas(w, addr, res)
      [] name = "decode_atomic_memory_ops" -> decode_atomic_memory_ops(w, addr, res)
      [] name = "decode_ls_pair" -> decode_ls_pair(w, addr, res)
      [] name = "decode_load_literal" -> decode_load_literal(w, addr, res)
      [] name = "decode_ls_unsigned_imm" -> decode_ls_unsigned_imm(w, addr, res)
      [] name = "decode_ls_reg_offset" -> decode_ls_reg_offset(w, addr, res)
      [] name = "decode_ls_unscaled_imm" -> decode_ls_unscaled_imm(w, addr, res)
      [] name = "decode_pc_rel_addr" -> decode_pc_rel_addr(w, addr, res)
      [] name = "decode_add_sub_imm" -> decode_add_sub_imm(w, addr, res)
      [] name = "decode_logical_imm" -> decode_logical_imm(w, addr, res)
      [] name = "decode_move_wide_imm" -> decode_move_wide_imm(w, addr, res)
      [] name = "decode_bitfield" -> decode_bitfield(w, addr, res)
      [] name = "decode_extract" -> decode_extract(w, addr, res)
      [] name = "decode_logical_shifted_reg" -> decode_logical_shifted_reg(w, addr, res)
      [] name = "decode_add_sub_shifted_reg" -> decode_add_sub_shifted_reg(w, addr, res)
      [] name = "decode_cond_select" -> decode_cond_select(w, addr, res)
      [] name = "decode_data_proc_1src" -> decode_data_proc_1src(w, addr, res)
      [] name = "decode_data_proc_2src" -> decode_data_proc_2src(w, addr, res)
      [] name = "decode_data_proc_3src" -> decode_data_proc_3src(w, addr, res)
      [] name = "decode_fp_compare" -> decode_fp_compare(w, addr, res)
      [] name = "decode_fp_cond_compare" -> decode_fp_cond_compare(w, addr, res)
      [] name = "decode_fp_cond_select" -> decode_fp_cond_select(w, addr, res)
      [] name = "decode_fp_data_proc_2src" -> decode_fp_data_proc_2src(w, addr, res)
      [] name = "decode_fp_data_proc_1src" -> decode_fp_data_proc_1src(w, addr, res)
      [] name = "decode_fp_imm" -> decode_fp_imm(w, addr, res)
      [] name = "decode_fp_int_conv" -> decode_fp_int_conv(w, addr, res)
      [] name = "decode_fp_data_proc_3src" -> decode_fp_data_proc_3src(w, addr, res)
      [] name = "decode_simd_scalar_dup" -> decode_simd_scalar_dup(w, addr, res)
      [] name = "decode_simd_scalar_3same" -> decode_simd_scalar_3same(w, addr, res)
      [] name = "decode_simd_scalar_2reg_misc" -> decode_simd_scalar_2reg_misc(w, addr, res)

MaskMatch_mutant_always(w, row) == TRUE

\* (inst & table[i].mask) == table[i].value
MaskMatch(w, row) == AND32(w, row.mask) = row.value

\* decode_with_table as a function of its arguments: the loop from row i on.
RECURSIVE WalkFrom(_, _, _, _, _)
WalkFrom(table, i, w, addr, res) ==
    IF i > Len(TableOf(table)) THEN Ret(FALSE, res)
    ELSE LET row == TableOf(table)[i]
         IN  IF ~MaskMatch(w, row) THEN WalkFrom(table, i + 1, w, addr, res)
             ELSE LET d == IF row.decoder \in Dispatchers
                           THEN WalkFrom(SubTable(row.decoder), 1, w, addr, res)
                           ELSE CallLeaf(row.decoder, w, addr, res)
                  IN  IF d.ok THEN d
                      ELSE WalkFrom(table, i + 1, w, addr, d.r)

decode_with_table(table, w, addr, res) == WalkFrom(table, 1, w, addr, res)

decode_branch(w, addr, res) ==
    decode_with_table("branch_decode_table", w, addr, res)

decode_data_proc_imm(w, addr, res) ==
    decode_with_table("data_proc_imm_decode_table", w, addr, res)

decode_data_proc_reg(w, addr, res) ==
    decode_with_table("data_proc_reg_decode_table", w, addr, res)

decode_load_store(w, addr, res) ==
    decode_with_table("load_store_decode_table", w, addr, res)

decode_fp_simd_mutant_load_store_table(w, addr, res) ==
    decode_with_table("load_store_decode_table", w, addr, res)

decode_fp_simd(w, addr, res) ==
    decode_with_table("fp_simd_decode_table", w, addr, res)

\* disassemble_arm64 as a function of its arguments and of the prior
\* content `old` of *inst: what one call, running alone, returns and leaves.
disassemble_arm64(w, addr, old) ==
    LET r0 == init_disasm_inst(old, w, addr)
        t == decode_with_table("top_level_decode_table", w, addr, r0)
        b == decode_branch(w, addr, t.r)
        i == decode_data_proc_imm(w, addr, b.r)
        g == decode_data_proc_reg(w, addr, i.r)
        l == decode_load_store(w, addr, g.r)
    IN  IF t.ok THEN t
        ELSE IF b.ok THEN b
        ELSE IF i.ok THEN i
        ELSE IF g.ok THEN g
        ELSE IF l.ok THEN l
        ELSE Ret(l.r.type # "UNKNOWN", l.r)

\* The tables the fallback chain of disassemble_arm64 walks, in order.
FallbackTables_mutant_chain_thrice ==
    << "branch_decode_table", "data_proc_imm_decode_table",
       "data_proc_reg_decode_table", "load_store_decode_table",
       "branch_decode_table", "data_proc_imm_decode_table",
       "data_proc_reg_decode_table", "load_store_decode_table",
       "branch_decode_table", "data_proc_imm_decode_table",
       "data_proc_reg_decode_table", "load_store_decode_table" >>

FallbackTables ==
    << "branch_decode_table", "data_proc_imm_decode_table",
       "data_proc_reg_decode_table", "load_store_decode_table" >>

BranchTargetKinds ==
    {"B", "BL", "CBZ", "CBNZ", "TBZ", "TBNZ", "ADR", "ADRP"}

get_branch_target_mutant_always_stores(rec, old) ==
    [ok |-> rec.type \in BranchTargetKinds,
     target |-> ADD64(rec.address, rec.imm)]

\* bool get_branch_target(const disasm_inst_t *inst, uint64_t *target):
\* the returned bool and the new content of *target, given its old content.
get_branch_target(rec, old) ==
    IF rec.type \in BranchTargetKinds
    THEN [ok |-> TRUE, target |-> ADD64(rec.address, rec.imm)]
    ELSE [ok |-> FALSE, target |-> old]

(* ------------------------------ callers --------------------------------- *)

ptr_mutant_shared_record(t) == 1

\* The disasm_inst_t a thread passes as `inst`: each thread owns one record.
ptr(t) == t

\* The content of a record its caller never initialised: every field holds
\* a value that no decoder writes.
DirtyInst ==
    [raw |-> W(65535, 65535), address |-> <<1, 2, 3, 4>>, type |-> "LDR",
     mnemonic |-> "garbage", rd |-> 255, rn |-> 255, rm |-> 255, rt2 |-> 255,
     ra |-> 255, rd_type |-> "Q", rn_type |-> "Q", rm_type |-> "Q",
     imm |-> <<65535, 65535, 65535, 32767>>, has_imm |-> TRUE,
     addr_mode |-> "LITERAL", extend_type |-> 7, shift_amount |-> 255,
     cond |-> 255, is_64bit |-> TRUE, set_flags |-> TRUE,
     is_acquire |-> TRUE, is_release |-> TRUE]

\* What a caller's uint64_t target holds before get_branch_target is called.
TargetInit == <<\hDEAD, \hBEEF, \hDEAD, \hBEEF>>

(* ------------------------- the words callers pass ----------------------- *)
(* callers may pass any uint32_t; the model draws the words from           *)
(* families that fix an encoding class and vary the fields its decoder     *)
(* reads over their boundary values.                                       *)

\* base with the fields f = << <<value, position>>, ... >> filled in.
RECURSIVE Enc(_, _)
Enc(base, f) ==
    IF f = <<>> THEN base
    ELSE Enc(Plus(base, Place(f[1][1], f[1][2])), Tail(f))

Bit == {0, 1}
Two == 0..3
R2 == {0, 31}

Imm26s == {0, 1, 16, 33554431, 33554432, 67108863}
Imm19s == {0, 1, 262143, 262144, 524287}
Imm14s == {0, 1, 8191, 8192, 16383}

WordsBranchImm ==
    {Enc(W(\h1400, 0), << <<op, 31>>, <<i, 0>> >>) : op \in Bit, i \in Imm26s}

WordsCondBranch ==
    {Enc(W(\h5400, 0), << <<i, 5>>, <<o, 4>>, <<c, 0>> >>) :
        i \in Imm19s, o \in Bit, c \in {0, 1, 14, 15}}

WordsCompareBranch ==
    {Enc(W(\h3400, 0), << <<sf, 31>>, <<op, 24>>, <<i, 5>>, <<rt, 0>> >>) :
        sf \in Bit, op \in Bit, i \in Imm19s, rt \in R2}

WordsTestBranch ==
    {Enc(W(\h3600, 0),
         << <<b5, 31>>, <<op, 24>>, <<b40, 19>>, <<i, 5>>, <<rt, 0>> >>) :
        b5 \in Bit, op \in Bit, b40 \in R2, i \in Imm14s, rt \in R2}

WordsBranchReg ==
    {Enc(W(\hD600, 0),
         << <<opc, 21>>, <<op2, 16>>, <<op3, 10>>, <<rn, 5>>, <<op4, 0>> >>) :
        opc \in 0..5, op2 \in {30, 31}, op3 \in Bit, rn \in {30, 31},
        op4 \in Bit}

WordsSystem ==
    {Enc(W(\hD500, 0),
         << <<L, 21>>, <<op0, 19>>, <<op1, 16>>, <<crn, 12>>, <<crm, 8>>,
            <<op2, 5>>, <<rt, 0>> >>) :
        L \in Bit, op0 \in {0, 3}, op1 \in {3}, crn \in {2}, crm \in Bit,
        op2 \in 0..6, rt \in R2}
    \cup {W(\hD500, \h201F), W(\hD503, \h301F), W(\hD503, \h205F)}

WordsExclusive ==
    {Enc(W(\h0800, 0),
         << <<size, 30>>, <<o2, 23>>, <<L, 22>>, <<o1, 21>>, <<rs, 16>>,
            <<o0, 15>>, <<rt2, 10>>, <<1, 5>> >>) :
        size \in Two, o2 \in Bit, L \in Bit, o1 \in Bit, o0 \in Bit,
        rs \in {1, 31}, rt2 \in {2, 31}}
    \cup {W(\hC8A0, \h7C20), W(\hC85F, \h7FE0), W(\h885F, \hFFE1),
          W(\hC8A0, \h7FE0), W(\hC8E0, \h7C20), W(\hC8A0, \hFC20),
          W(\hC8E0, \hFC20)}

WordsAtomic ==
    {Enc(W(\h3820, 0),
         << <<size, 30>>, <<A, 23>>, <<R, 22>>, <<2, 16>>, <<o, 12>>,
            <<rn, 5>> >>) :
        size \in Two, A \in Bit, R \in Bit, o \in {0, 3, 7, 8, 9}, rn \in {1}}
    \cup {Enc(W(\hF820, 0), << <<V, 26>>, <<o, 12>>, <<rn, 5>> >>) :
            V \in Bit, o \in 0..8, rn \in {1, 31}}

WordsPair ==
    {Enc(W(\h2800, 0),
         << <<opc, 30>>, <<idx, 23>>, <<L, 22>>, <<i, 15>>, <<30, 10>>,
            <<31, 5>>, <<29, 0>> >>) :
        opc \in Two, idx \in Two, L \in Bit, i \in {0, 63, 64, 126}}
    \cup {Enc(W(\h2C00, 0),
              << <<opc, 30>>, <<idx, 23>>, <<L, 22>>, <<126, 15>>, <<1, 10>>,
                 <<2, 5>> >>) :
            opc \in Two, idx \in {0, 2}, L \in Bit}

WordsLiteral ==
    {Enc(W(\h1800, 0), << <<opc, 30>>, <<V, 26>>, <<i, 5>>, <<rt, 0>> >>) :
        opc \in Two, V \in Bit, i \in {0, 1, 262144, 524287}, rt \in {0}}

WordsUnsignedImm ==
    {Enc(W(\h3900, 0),
         << <<size, 30>>, <<V, 26>>, <<opc, 22>>, <<i, 10>>, <<rn, 5>>,
            <<1, 0>> >>) :
        size \in Two, V \in Bit, opc \in Two, i \in {1, 4095}, rn \in {1}}
    \cup {W(\hF940, \h0421), W(\hF940, \h07E0), W(\h3900, \h03E0)}

WordsRegOffset ==
    {Enc(W(\h3820, \h0800),
         << <<size, 30>>, <<V, 26>>, <<opc, 22>>, <<2, 16>>, <<o, 13>>,
            <<S, 12>>, <<31, 5>> >>) :
        size \in Two, V \in Bit, opc \in Two, o \in {2, 3}, S \in Bit}
    \cup {W(\hF862, \hE820), W(\hF862, \hC820)}

WordsUnscaled ==
    {Enc(W(\h3800, 0),
         << <<size, 30>>, <<V, 26>>, <<opc, 22>>, <<i, 12>>, <<idx, 10>>,
            <<1, 5>> >>) :
        size \in Two, V \in Bit, opc \in Two, i \in {256}, idx \in Two}
    \cup {W(\hF800, \h1020), W(\hF81F, \hF020), W(\hF81F, \h0FE0),
          W(\hF841, \h07E0)}

WordsPcRel ==
    {Enc(W(\h1000, 0), << <<op, 31>>, <<lo, 29>>, <<hi, 5>>, <<rd, 0>> >>) :
        op \in Bit, lo \in {0, 3}, hi \in Imm19s, rd \in R2}

WordsAddSubImm ==
    {Enc(W(\h1100, 0),
         << <<sf, 31>>, <<op, 30>>, <<S, 29>>, <<sh, 22>>, <<i, 10>>,
            <<rn, 5>>, <<rd, 0>> >>) :
        sf \in Bit, op \in Bit, S \in Bit, sh \in 0..2, i \in {0, 4095},
        rn \in {29, 31}, rd \in {29, 31}}

WordsLogicalImm ==
    {Enc(W(\h1200, 0),
         << <<sf, 31>>, <<opc, 29>>, <<N, 22>>, <<1, 16>>, <<2, 10>>,
            <<rn, 5>>, <<rd, 0>> >>) :
        sf \in Bit, opc \in Two, N \in Bit, rn \in R2, rd \in R2}

WordsMoveWide ==
    {Enc(W(\h1280, 0),
         << <<sf, 31>>, <<opc, 29>>, <<hw, 21>>, <<i, 5>>, <<rd, 0>> >>) :
        sf \in Bit, opc \in Two, hw \in Two, i \in {0, 65535}, rd \in {0}}

WordsBitfield ==
    {Enc(W(\h1300, 0),
         << <<sf, 31>>, <<opc, 29>>, <<N, 22>>, <<r, 16>>, <<s, 10>>,
            <<1, 5>> >>) :
        sf \in Bit, opc \in Two, N \in Bit, r \in Bit, s \in {0, 31, 63}}

WordsExtract ==
    {Enc(W(\h1380, 0),
         << <<sf, 31>>, <<o, 29>>, <<N, 22>>, <<rm, 16>>, <<s, 10>>,
            <<1, 5>> >>) :
        sf \in Bit, o \in Bit, N \in Bit, rm \in {1, 2}, s \in {0, 32}}

WordsLogicalReg ==
    {Enc(W(\h0A00, 0),
         << <<sf, 31>>, <<opc, 29>>, <<sh[1], 22>>, <<N, 21>>, <<1, 16>>,
            <<sh[2], 10>>, <<rn, 5>>, <<rd, 0>> >>) :
        sf \in Bit, opc \in Two, sh \in {<<0, 0>>, <<3, 63>>}, N \in Bit,
        rn \in R2, rd \in R2}

WordsAddSubReg ==
    {Enc(W(\h0B00, 0),
         << <<sf, 31>>, <<op, 30>>, <<S, 29>>, <<sh, 22>>, <<e, 21>>,
            <<1, 16>>, <<3, 10>>, <<rn, 5>>, <<rd, 0>> >>) :
        sf \in Bit, op \in Bit, S \in Bit, sh \in {0, 2, 3}, e \in {0},
        rn \in R2, rd \in R2}
    \cup {W(\h0B21, \h0C20), W(\h8B21, \h0C20)}

WordsCondSelect ==
    {Enc(W(\h1A80, 0),
         << <<sf, 31>>, <<op, 30>>, <<S, 29>>, <<rr[1], 16>>, <<c, 12>>,
            <<op2, 10>>, <<rr[2], 5>> >>) :
        sf \in Bit, op \in Bit, S \in {0}, c \in {0, 1, 14, 15},
        op2 \in Bit,
        rr \in {<<31, 31>>, <<1, 1>>, <<1, 2>>, <<31, 1>>}}
    \cup {W(\h3A81, \h0020), W(\h1A81, \h0820), W(\h1A81, \h0C20)}

WordsOneSource ==
    {Enc(W(\h5AC0, 0),
         << <<sf, 31>>, <<S, 29>>, <<o2, 16>>, <<o, 10>>, <<1, 5>> >>) :
        sf \in Bit, S \in Bit, o2 \in Bit, o \in 0..6}

WordsTwoSource ==
    {Enc(W(\h1AC0, 0),
         << <<sf, 31>>, <<S, 29>>, <<2, 16>>, <<o, 10>>, <<1, 5>> >>) :
        sf \in Bit, S \in Bit, o \in {0, 2, 3, 8, 9, 10, 11, 12}}

WordsThreeSource ==
    {Enc(W(\h1B00, 0),
         << <<sf, 31>>, <<o54, 29>>, <<o31, 21>>, <<2, 16>>, <<o0, 15>>,
            <<ra, 10>>, <<1, 5>> >>) :
        sf \in Bit, o54 \in Bit, o31 \in Bit, o0 \in Bit, ra \in R2}

WordsFp ==
    {Enc(W(\h1E20, \h2000),
         << <<M, 31>>, <<ft, 22>>, <<op, 14>>, <<o2, 0>> >>) :
        M \in Bit, ft \in {0, 1, 3}, op \in Bit, o2 \in {0, 1, 8, 16, 24}}
    \cup {Enc(W(\h1E20, 0),
              << <<sf, 31>>, <<S, 29>>, <<ft, 22>>, <<rm, 19>>, <<o, 16>> >>) :
            sf \in Bit, S \in {0}, ft \in {1}, rm \in Two, o \in 0..7}
    \cup {W(\h3E20, 0), W(\h1E27, 0), W(\h1EE7, 0), W(\h9E22, 0)}
    \cup {Enc(W(\h1E20, \h4000), << <<ft, 22>>, <<o, 15>> >>) :
            ft \in Two, o \in {0, 3, 4, 5, 6, 7, 8, 16}}
    \cup {Enc(W(\h1E20, \h0800), << <<ft, 22>>, <<o, 12>> >>) :
            ft \in Bit, o \in 0..9}
    \cup {Enc(W(\h1F00, 0), << <<M, 31>>, <<o1, 21>>, <<o0, 15>> >>) :
            M \in Bit, o1 \in Bit, o0 \in Bit}
    \cup {Enc(W(\h1E20, \h0400), << <<c, 10>>, <<op, 4>> >>) :
            c \in {0, 2}, op \in Bit}
    \cup {Enc(W(\h1E20, \h1000), << <<i, 13>>, <<z, 5>> >>) :
            i \in {0, 255}, z \in Bit}
    \cup {Enc(W(\h5E00, \h0400), << <<i5, 16>>, <<1, 5>> >>) :
            i5 \in {0, 1, 2, 4, 8, 16, 31}}
    \cup {Enc(W(\h5E20, \h0400),
              << <<U, 29>>, <<sz, 22>>, <<o, 11>> >>) :
            U \in Bit, sz \in {0, 3}, o \in {0, 16, 26, 29}}
    \cup {Enc(W(\h5E20, \h0800),
              << <<U, 29>>, <<sz, 22>>, <<o, 12>> >>) :
            U \in Bit, sz \in {0, 3}, o \in {0, 3, 11, 29}}

WordsMisc ==
    { W(0, 0), W(\hFFFF, \hFFFF), W(\hD800, 0), W(\h9100, \h03FD),
      W(\h9A9F, \h07E0), W(\hA9BF, \h7BFD), W(\hD65F, \h03C0),
      W(\h1400, \h0010), W(\hD503, \h201F), W(\h1100, \h001F),
      W(\h9100, 0), W(\h9100, \h0420) }

AllWords ==
    WordsBranchImm \cup WordsCondBranch \cup WordsCompareBranch
    \cup WordsTestBranch \cup WordsBranchReg \cup WordsSystem
    \cup WordsExclusive \cup WordsAtomic \cup WordsPair \cup WordsLiteral
    \cup WordsUnsignedImm \cup WordsRegOffset \cup WordsUnscaled
    \cup WordsPcRel \cup WordsAddSubImm \cup WordsLogicalImm
    \cup WordsMoveWide \cup WordsBitfield \cup WordsExtract
    \cup WordsLogicalReg \cup WordsAddSubReg \cup WordsCondSelect
    \cup WordsOneSource \cup WordsTwoSource \cup WordsThreeSource
    \cup WordsFp \cup WordsMisc

\* Words whose decoded imm is relative to the instruction's address.
WordsPcRelative ==
    WordsBranchImm
    \cup {w \in WordsCondBranch : BITS(w, 0, 4) = 0}
    \cup {w \in WordsCompareBranch : BITS(w, 0, 4) = 0 /\ BIT(w, 24) = 0}
    \cup {w \in WordsTestBranch :
            BITS(w, 0, 4) = 0 /\ BIT(w, 24) = 0 /\ BITS(w, 19, 23) = 0}
    \cup {w \in WordsPcRel : BITS(w, 0, 4) = 0 /\ BITS(w, 29, 30) = 3}

\* 0x1000, and two addresses from which a forward displacement wraps.
Addr0 == <<\h1000, 0, 0, 0>>
Addresses == {Addr0, <<\hFFFC, \hFFFF, \hFFFF, \hFFFF>>,
              <<\hFFF0, \hFFFF, \hFFFF, \h7FFF>>}

SeqInputs ==
    {<<w, Addr0>> : w \in AllWords}
    \cup {<<w, a>> : w \in WordsPcRelative, a \in Addresses}

\* What each concurrent caller decodes: the first a load-literal word every
\* table rejects, the others b 0x40 or mov x29, sp.
ConcInput(t) ==
    IF t = 1 THEN <<W(\hD800, 0), Addr0>>
    ELSE IF t % 2 = 0 THEN <<W(\h1400, \h0010), Addr0>>
    ELSE <<W(\h9100, \h03FD), Addr0>>

(* --------------------------- the state machine -------------------------- *)
(* One call of disassemble_arm64 proceeds row by row: every step examines  *)
(* one row of the innermost decode_with_table walk.  stack[t] holds the    *)
(* walks in progress; each frame keeps, next to the loop index i, a log of *)
(* the rows it has gone through (history, not program state).              *)

Frame(table) == [table |-> table, i |-> 1, log |-> <<>>]

LogEntry(i, called, ok) == [row |-> i, called |-> called, ok |-> ok]

\* A frame whose current row has been gone through with the given outcome.
Advance(f, called, ok) ==
    [f EXCEPT !.i = f.i + 1, !.log = Append(f.log, LogEntry(f.i, called, ok))]

\* The record of a finished walk.
Finished(f, ok) == [table |-> f.table, ok |-> ok, log |-> f.log]

Top(t) == stack[t][Len(stack[t])]

AtRow(t) ==
    /\ pc[t] = "table"
    /\ Top(t).i <= Len(TableOf(Top(t).table))

CurRow(t) == TableOf(Top(t).table)[Top(t).i]

SetTop(t, f) == [stack EXCEPT ![t] = [@ EXCEPT ![Len(@)] = f]]

\* Every thread active: the concurrent callers.
Concurrent == \A t \in Threads : pc[t] # "off"

Inputs(t) == IF Concurrent THEN {ConcInput(t)} ELSE SeqInputs

\* interleaved after a step of thread t.
Others(t) == interleaved \/ \E u \in Threads \ {t} : pc[u] = "table"

\* A thread is between calls and has calls left to make.
CanCall(t) == pc[t] \in {"idle", "done"} /\ ncalls[t] < MaxCalls

\* The arguments a thread may call with: any input on its first call, the
\* same arguments again afterwards.
CallArgs(t) ==
    IF ~CanCall(t) THEN {}
    ELSE IF ncalls[t] = 0 THEN Inputs(t)
    ELSE {<<inst[t], address[t]>>}

\* The snapshot kept of a thread's first finished call.
Snapshot(t, r, rec) == IF ncalls[t] = 1 THEN <<r, rec>> ELSE first[t]

\* A caller invokes disassemble_arm64(w, a, &record): init_disasm_inst runs
\* and the top-level walk begins.
Call(t, w, a) ==
    /\ CanCall(t)
    /\ inst' = [inst EXCEPT ![t] = w]
    /\ address' = [address EXCEPT ![t] = a]
    /\ result' = [result EXCEPT
                    ![ptr(t)] = init_disasm_inst(result[ptr(t)], w, a)]
    /\ pc' = [pc EXCEPT ![t] = "table"]
    /\ stage' = [stage EXCEPT ![t] = 0]
    /\ stack' = [stack EXCEPT ![t] = <<Frame("top_level_decode_table")>>]
    /\ walks' = [walks EXCEPT ![t] = <<>>]
    /\ ncalls' = [ncalls EXCEPT ![t] = @ + 1]
    /\ target' = [target EXCEPT ![t] = TargetInit]
    /\ bt' = [bt EXCEPT ![t] = "none"]
    /\ prior' = [prior EXCEPT ![t] = result[ptr(t)]]
    /\ interleaved' = Others(t)
    /\ UNCHANGED <<ret, first>>
    /\ UNCHANGED used

\* (inst & mask) != value: the loop moves to the next row.
Skip(t) ==
    /\ AtRow(t)
    /\ ~MaskMatch(inst[t], CurRow(t))
    /\ stack' = SetTop(t, Advance(Top(t), FALSE, FALSE))
    /\ interleaved' = Others(t)
    /\ UNCHANGED <<inst, address, result, pc, stage, ret, walks, ncalls,
                   first, target, bt, prior>>
    /\ UNCHANGED used

\* Every walk in progress returns true: the innermost first.
RECURSIVE Unwind(_)
Unwind(s) ==
    IF s = <<>> THEN <<>>
    ELSE <<Finished(Advance(s[Len(s)], TRUE, TRUE), TRUE)>>
         \o Unwind(SubSeq(s, 1, Len(s) - 1))

\* The row matches and its decoder is a leaf: it runs on the record.  If it
\* accepts, decode_with_table returns true through every enclosing walk and
\* disassemble_arm64 returns true; otherwise the loop goes on.
Invoke(t) ==
    /\ AtRow(t)
    /\ MaskMatch(inst[t], CurRow(t))
    /\ CurRow(t).decoder \notin Dispatchers
    /\ LET d == CallLeaf(CurRow(t).decoder, inst[t], address[t],
                         result[ptr(t)])
       IN  /\ result' = [result EXCEPT ![ptr(t)] = d.r]
           /\ IF d.ok
              THEN /\ stack' = [stack EXCEPT ![t] = <<>>]
                   /\ walks' = [walks EXCEPT ![t] = @ \o Unwind(stack[t])]
                   /\ pc' = [pc EXCEPT ![t] = "done"]
                   /\ ret' = [ret EXCEPT ![t] = TRUE]
                   /\ first' = [first EXCEPT ![t] = Snapshot(t, TRUE, d.r)]
              ELSE /\ stack' = SetTop(t, Advance(Top(t), TRUE, FALSE))
                   /\ UNCHANGED <<walks, pc, ret, first>>
    /\ interleaved' = Others(t)
    /\ UNCHANGED <<inst, address, stage, ncalls, target, bt, prior>>
    /\ UNCHANGED used

\* The row matches and its decoder is a dispatcher: the sub-table's walk
\* begins.
Dispatch(t) ==
    /\ AtRow(t)
    /\ MaskMatch(inst[t], CurRow(t))
    /\ CurRow(t).decoder \in Dispatchers
    /\ stack' = [stack EXCEPT
                   ![t] = Append(@, Frame(SubTable(CurRow(t).decoder)))]
    /\ interleaved' = Others(t)
    /\ UNCHANGED <<inst, address, result, pc, stage, ret, walks, ncalls,
                   first, target, bt, prior>>
    /\ UNCHANGED used

\* The loop of the innermost walk is over: decode_with_table returns false.
\* A dispatcher row of the enclosing walk has then rejected; the top-level
\* walk is followed by the fallback calls; after the last fallback
\* disassemble_arm64 returns (inst->type != INST_TYPE_UNKNOWN).
Exhausted(t) ==
    /\ pc[t] = "table"
    /\ ~AtRow(t)
    /\ walks' = [walks EXCEPT ![t] = Append(@, Finished(Top(t), FALSE))]
    /\ IF Len(stack[t]) > 1
       THEN /\ stack' = [stack EXCEPT ![t] =
                  LET s == SubSeq(@, 1, Len(@) - 1)
                  IN  [s EXCEPT ![Len(s)] = Advance(s[Len(s)], TRUE, FALSE)]]
            /\ UNCHANGED <<pc, stage, ret, first>>
       ELSE IF stage[t] < Len(FallbackTables)
       THEN /\ stage' = [stage EXCEPT ![t] = @ + 1]
            /\ stack' = [stack EXCEPT
                           ![t] = <<Frame(FallbackTables[stage[t] + 1])>>]
            /\ UNCHANGED <<pc, ret, first>>
       ELSE /\ stack' = [stack EXCEPT ![t] = <<>>]
            /\ pc' = [pc EXCEPT ![t] = "done"]
            /\ ret' = [ret EXCEPT
                         ![t] = (result[ptr(t)].type # "UNKNOWN")]
            /\ first' = [first EXCEPT ![t] =
                  Snapshot(t, result[ptr(t)].type # "UNKNOWN",
                           result[ptr(t)])]
            /\ UNCHANGED stage
    /\ interleaved' = Others(t)
    /\ UNCHANGED <<inst, address, result, ncalls, target, bt, prior>>
    /\ UNCHANGED used

\* The caller asks for the branch target of its decoded record.
GetBranchTarget(t) ==
    /\ pc[t] = "done"
    /\ bt[t] = "none"
    /\ LET g == get_branch_target(result[ptr(t)], target[t])
       IN  /\ target' = [target EXCEPT ![t] = g.target]
           /\ bt' = [bt EXCEPT ![t] = IF g.ok THEN "true" ELSE "false"]
    /\ interleaved' = Others(t)
    /\ UNCHANGED <<inst, address, result, pc, stage, stack, ret, walks,
                   ncalls, first, prior>>
    /\ UNCHANGED used

\* Between two calls the caller clears its record.
Clear(t) ==
    /\ pc[t] = "done"
    /\ CanCall(t)
    /\ result' = [result EXCEPT ![ptr(t)] = ZeroInst]
    /\ pc' = [pc EXCEPT ![t] = "idle"]
    /\ interleaved' = Others(t)
    /\ UNCHANGED <<inst, address, stage, stack, ret, walks, ncalls, first,
                   target, bt, prior>>
    /\ UNCHANGED used

(* -------------------------- get_used_registers -------------------------- *)

ADD_REG_mutant_no_duplicate_test(u, reg, type, max_count) ==
    IF u.count < max_count /\ (reg < 31 \/ type = "SP")
    THEN [regs |-> [u.regs EXCEPT ![u.count + 1] = reg],
          count |-> u.count + 1]
    ELSE u

\* The macro ADD_REG(reg, type), on u = [regs, count].
ADD_REG(u, reg, type, max_count) ==
    IF u.count < max_count /\ (reg < 31 \/ type = "SP")
    THEN IF \E i \in 1..u.count : u.regs[i] = reg THEN u
         ELSE [regs |-> [u.regs EXCEPT ![u.count + 1] = reg],
               count |-> u.count + 1]
    ELSE u

\* void get_used_registers(inst, regs, count, max_count) with non-NULL
\* pointers: what it leaves in regs[] and *count.
get_used_registers(rec, regs, count, max_count) ==
    IF max_count = 0 THEN [regs |-> regs, count |-> count]
    ELSE LET u0 == [regs |-> regs, count |-> 0]
             u1 == ADD_REG(u0, rec.rd, rec.rd_type, max_count)
             u2 == ADD_REG(u1, rec.rn, rec.rn_type, max_count)
             u3 == ADD_REG(u2, rec.rm, rec.rm_type, max_count)
         IN  ADD_REG(u3, rec.rt2, rec.rd_type, max_count)

\* No call of get_used_registers is being made.
NotUsed == [phase |-> "none", regs |-> <<>>, before |-> <<>>, count |-> 0,
            max_count |-> 0]

\* The records get_used_registers is given: register numbers and classes in
\* every combination of a few values.
RegRecords ==
    {[ZeroInst EXCEPT !.rd = rd, !.rn = rn, !.rm = rm, !.rt2 = rt2,
                      !.rd_type = dt, !.rn_type = nt, !.rm_type = mt] :
        rd \in {0, 1, 31}, rn \in {0, 1, 31}, rm \in {0, 2, 31},
        rt2 \in {0, 3, 31}, dt \in {"X", "SP"}, nt \in {"X", "SP"},
        mt \in {"W", "SP"}}

\* The caller's buffer and *count before the call: neither is initialised.
RegBuffers ==
    {[phase |-> "ready", regs |-> [i \in 1..RegBufLen |-> fill],
      before |-> [i \in 1..RegBufLen |-> fill], count |-> c,
      max_count |-> m] :
        fill \in {0, 31}, c \in {0, 9}, m \in 0..RegBufLen}

\* The caller of thread t's record asks for the registers it uses.
GetUsedRegisters(t) ==
    /\ pc[t] # "off"
    /\ used.phase = "ready"
    /\ LET u == get_used_registers(result[ptr(t)], used.regs, used.count,
                                   used.max_count)
       IN  used' = [used EXCEPT !.phase = "called", !.regs = u.regs,
                                !.count = u.count]
    /\ UNCHANGED <<inst, address, result, pc, stage, stack, ret, walks,
                   ncalls, first, target, bt, prior, interleaved>>

TypeInit ==
    /\ inst = [t \in Threads |-> W(0, 0)]
    /\ address = [t \in Threads |-> Addr0]
    /\ stage = [t \in Threads |-> 0]
    /\ stack = [t \in Threads |-> <<>>]
    /\ ret = [t \in Threads |-> FALSE]
    /\ walks = [t \in Threads |-> <<>>]
    /\ ncalls = [t \in Threads |-> 0]
    /\ first = [t \in Threads |-> <<>>]
    /\ target = [t \in Threads |-> TargetInit]
    /\ bt = [t \in Threads |-> "none"]
    /\ prior = [t \in Threads |-> DirtyInst]
    /\ interleaved = FALSE

\* One caller; its record is uninitialised.
Init ==
    /\ TypeInit
    /\ pc = [t \in Threads |-> IF t = 1 THEN "idle" ELSE "off"]
    /\ result = [t \in Threads |-> DirtyInst]
    /\ used = NotUsed

\* NumThreads callers, each with its own record.
InitConc ==
    /\ TypeInit
    /\ pc = [t \in Threads |-> "idle"]
    /\ result = [t \in Threads |-> DirtyInst]
    /\ used = NotUsed

Next ==
    \E t \in Threads :
        \/ \E in \in CallArgs(t) : Call(t, in[1], in[2])
        \/ Skip(t)
        \/ Invoke(t)
        \/ Dispatch(t)
        \/ Exhausted(t)
        \/ GetBranchTarget(t)
        \/ Clear(t)

\* The callers of the concurrent setting only decode.
NextConc ==
    \E t \in Threads :
        \/ \E in \in CallArgs(t) : Call(t, in[1], in[2])
        \/ Skip(t)
        \/ Invoke(t)
        \/ Dispatch(t)
        \/ Exhausted(t)

Spec == Init /\ [][Next]_vars

SpecConc == InitConc /\ [][NextConc]_vars

\* One caller holding some record, with a buffer for its registers.
InitRegs ==
    /\ TypeInit
    /\ pc = [t \in Threads |-> IF t = 1 THEN "idle" ELSE "off"]
    /\ \E rec \in RegRecords :
          result = [t \in Threads |-> IF t = 1 THEN rec ELSE DirtyInst]
    /\ used \in RegBuffers

NextRegs == \E t \in Threads : GetUsedRegisters(t)

SpecRegs == InitRegs /\ [][NextRegs]_vars

\* One step of a call in progress: an iteration of the loop of
\* decode_with_table or its return.
Step(t) == Skip(t) \/ Invoke(t) \/ Dispatch(t) \/ Exhausted(t)

\* A caller that decodes one word and stops.
NextLive ==
    \E t \in Threads :
        \/ \E in \in CallArgs(t) : ncalls[t] = 0 /\ Call(t, in[1], in[2])
        \/ Step(t)

\* A call in progress is not suspended forever: its thread keeps running.
SpecLive == Init /\ [][NextLive]_vars /\ \A t \in Threads : WF_vars(Step(t))

(* ------------------------------ properties ------------------------------ *)

Active == {t \in Threads : pc[t] # "off"}

\* The record a caller reads once its call has returned.
Rec(t) == result[ptr(t)]

\* Bit b of the two 16-bit halves of a word, by division.
BitOf(w, b) ==
    IF b < 16 THEN (w[2] \div 2^b) % 2 ELSE (w[1] \div 2^(b - 16)) % 2

\* The positions of the bits set in a word.
BitsSet(w) == {b \in 0..31 : BitOf(w, b) = 1}

TableNames ==
    {"top_level_decode_table", "branch_decode_table",
     "load_store_decode_table", "data_proc_imm_decode_table",
     "data_proc_reg_decode_table"}

\* The bits set in the mask and in the value of every row of every table.
RowBits ==
    [n \in TableNames |->
        [k \in DOMAIN TableOf(n) |->
            [mask |-> BitsSet(TableOf(n)[k].mask),
             value |-> BitsSet(TableOf(n)[k].value)]]]

\* (w & mask) = value for row k of a table, w given by its set bits.
RowMatches(bits, table, k) ==
    bits \cap RowBits[table][k].mask = RowBits[table][k].value

\* C1: disassemble_arm64 reports success only for a word some decoder
\* accepted: when the decoder of every matching row has rejected the word
\* (every walk of the call returned false), the call returns false and the
\* record's kind is UNKNOWN.
C1_RejectedIsUnknown ==
    \A t \in Active :
        (pc[t] = "done" /\ \A k \in DOMAIN walks[t] : ~walks[t][k].ok)
            => (ret[t] = FALSE /\ Rec(t).type = "UNKNOWN")

\* The rows a walk has gone through are 1, 2, 3, ... in order; a row's
\* decoder was called exactly when the row matches the word; no row but the
\* last gone through has accepted.
LogInOrder(bits, table, log) ==
    /\ Len(log) <= Len(TableOf(table))
    /\ \A k \in DOMAIN log :
          /\ log[k].row = k
          /\ log[k].called <=> RowMatches(bits, table, k)
          /\ log[k].ok => log[k].called
          /\ k < Len(log) => ~log[k].ok

\* C2: decode_with_table tries the rows strictly in order, calls a row's
\* decoder only when (word & mask) = value, returns true at the first decoder
\* that accepts without visiting a later row, goes on when a decoder rejects,
\* and returns false exactly when no matching row's decoder accepts.
C2_WalkInOrder ==
    \A t \in Active :
      LET bits == BitsSet(inst[t])
      IN
        /\ \A d \in DOMAIN stack[t] :
              LET f == stack[t][d]
              IN  /\ LogInOrder(bits, f.table, f.log)
                  /\ f.i = Len(f.log) + 1
                  /\ \A k \in DOMAIN f.log : ~f.log[k].ok
        /\ \A n \in DOMAIN walks[t] :
              LET wk == walks[t][n]
              IN  /\ LogInOrder(bits, wk.table, wk.log)
                  /\ wk.ok => (wk.log # <<>> /\ wk.log[Len(wk.log)].ok)
                  /\ ~wk.ok => /\ Len(wk.log) = Len(TableOf(wk.table))
                               /\ \A k \in DOMAIN wk.log : ~wk.log[k].ok

\* A finished walk in which a called decoder rejected and the loop went on to
\* a later row that does not match.
C2_Witness ==
    \E t \in Active :
        /\ pc[t] = "done"
        /\ \E n \in DOMAIN walks[t] :
              /\ ~walks[t][n].ok
              /\ \E k \in DOMAIN walks[t][n].log :
                    /\ walks[t][n].log[k].called
                    /\ k < Len(walks[t][n].log)
                    /\ ~walks[t][n].log[k + 1].called

\* C3: every word decode_fp_simd accepts is decoded successfully by
\* disassemble_arm64, with the same kind and operand classes (0x1E202000 is
\* FCMP on S registers, 0x9E670000 FMOV of a D register to an X register).
C3_FpSimdReachable ==
    \A t \in Active :
        pc[t] = "done" =>
            LET f == decode_fp_simd(inst[t], address[t],
                                    init_disasm_inst(ZeroInst, inst[t],
                                                     address[t]))
            IN  f.ok => /\ ret[t] = TRUE
                        /\ Rec(t).type = f.r.type
                        /\ Rec(t).rd_type = f.r.rd_type
                        /\ Rec(t).rn_type = f.r.rn_type
                        /\ Rec(t).rm_type = f.r.rm_type

\* The field of a word from bit lo up to bit hi, summed bit by bit.
RECURSIVE FieldOf(_, _, _)
FieldOf(w, lo, hi) ==
    IF lo > hi THEN 0 ELSE BitOf(w, lo) + 2 * FieldOf(w, lo + 1, hi)

\* (word & 0x3FA07C00) = 0x08A07C00: the compare-and-swap layout.
CasLayout(w) ==
    BitsSet(w) \cap {10, 11, 12, 13, 14, 21, 23, 24, 25, 26, 27, 28, 29}
        = {10, 11, 12, 13, 14, 21, 23, 27}

\* C4: every word of the compare-and-swap layout decodes to kind CAS with
\* rd = Rt, rm = Rs, rn = Rn; 0xC8A07C20 has rd_class X.
C4_CasDecodes ==
    \A t \in Active :
        (pc[t] = "done" /\ CasLayout(inst[t])) =>
            /\ ret[t] = TRUE
            /\ Rec(t).type = "CAS"
            /\ Rec(t).rd = FieldOf(inst[t], 0, 4)
            /\ Rec(t).rm = FieldOf(inst[t], 16, 20)
            /\ Rec(t).rn = FieldOf(inst[t], 5, 9)
            /\ inst[t] = W(\hC8A0, \h7C20) => Rec(t).rd_type = "X"

\* C5: the return value and the record of disassemble_arm64 depend on the
\* word and the address only: a later call with the same arguments ends as
\* the first did, whatever the record held before it.
C5_SameAsFirstCall ==
    \A t \in Active :
        (pc[t] = "done" /\ ncalls[t] >= 2) => <<ret[t], Rec(t)>> = first[t]

\* A second call has succeeded on a record the caller had cleared, the first
\* having run on an uninitialised one.
C5_Witness ==
    \E t \in Active :
        /\ pc[t] = "done"
        /\ ncalls[t] = 2
        /\ prior[t] = ZeroInst
        /\ ret[t] = TRUE
        /\ first[t] # <<>>

\* What a finished call has left is what the same call leaves running alone.
AsAlone ==
    \A t \in Active :
        pc[t] = "done" =>
            LET a == disassemble_arm64(inst[t], address[t], prior[t])
            IN  ret[t] = a.ok /\ Rec(t) = a.r

\* A step changes the record, the return value and the walk of one caller at
\* most.
OneCallerWrites ==
    \E t \in Threads :
        \A u \in Threads \ {t} :
            /\ result'[u] = result[u]
            /\ ret'[u] = ret[u]
            /\ stack'[u] = stack[u]
            /\ pc'[u] = pc[u]

\* C6: calls running concurrently on distinct records, in any interleaving,
\* each end with the record and the return value of the same call run alone,
\* and no call writes state another call reads.
C6_ConcurrentAsAlone == []AsAlone /\ [][OneCallerWrites]_vars

\* Every caller has finished its first call, and the calls were interleaved.
C6_Witness ==
    /\ interleaved
    /\ \A t \in Threads : pc[t] = "done" /\ ncalls[t] = 1

GprDestKinds ==
    {"ADD", "ADDS", "SUB", "SUBS", "MOV", "MOVZ", "MOVN", "MOVK", "AND",
     "ORR", "EOR", "ASR", "LSL", "LSR", "ROR", "UDIV", "SDIV", "MUL", "MADD",
     "MSUB", "ADR", "ADRP", "MRS"}

\* C7: for a successfully decoded word whose kind writes a general-purpose
\* destination register, is_64bit holds exactly when rd_class is X, SP or
\* XZR.
C7_WidthMatchesClass ==
    \A t \in Active :
        (/\ pc[t] = "done"
         /\ ret[t] = TRUE
         /\ Rec(t).type \in GprDestKinds
         /\ Rec(t).rd_type \in {"X", "W", "SP", "XZR", "WZR"})
            => (Rec(t).is_64bit <=> Rec(t).rd_type \in {"X", "SP", "XZR"})

RegClasses == {"X", "W", "SP", "XZR", "WZR", "V", "B", "H", "S", "D", "Q"}

\* The single-register exclusive and ordered loads.
SingleLoads ==
    {"ldxr", "ldaxr", "ldar", "ldxrb", "ldaxrb", "ldarb", "ldxrh", "ldaxrh",
     "ldarh"}

\* C8: after a successful decode the register slots the kind does not use
\* hold 0 and every class is a valid register class; ldxr, ldaxr and ldar
\* have rm = 0 and rt2 = 0 whatever their Rs and Rt2 fields hold, and b and
\* bl use no register.
C8_UnusedSlotsZero ==
    \A t \in Active :
        (pc[t] = "done" /\ ret[t] = TRUE) =>
            /\ {Rec(t).rd_type, Rec(t).rn_type, Rec(t).rm_type}
                  \subseteq RegClasses
            /\ Rec(t).mnemonic \in SingleLoads
                  => (Rec(t).rm = 0 /\ Rec(t).rt2 = 0)
            /\ Rec(t).mnemonic \in {"b", "bl"}
                  => /\ Rec(t).rd = 0 /\ Rec(t).rn = 0 /\ Rec(t).rm = 0
                     /\ Rec(t).rt2 = 0 /\ Rec(t).ra = 0

\* The 64-bit two's complement of an integer z, -2^31 < z < 2^31.
ToI64(z) ==
    IF z >= 0 THEN <<z % 2^16, z \div 2^16, 0, 0>>
    ELSE LET m == (-z) - 1
         IN  <<65535 - (m % 2^16), 65535 - (m \div 2^16), 65535, 65535>>

\* s = (a + b) mod 2^64, on 16-bit limbs with carries.
IsSum64(a, b, s) ==
    \E c1, c2, c3, c4 \in {0, 1} :
        /\ a[1] + b[1] = s[1] + c1 * 2^16
        /\ a[2] + b[2] + c1 = s[2] + c2 * 2^16
        /\ a[3] + b[3] + c2 = s[3] + c3 * 2^16
        /\ a[4] + b[4] + c3 = s[4] + c4 * 2^16
        /\ \A i \in 1..4 : s[i] \in 0..65535

\* The width and the position of the offset field of a pc-relative branch.
OffsetBits(rec) ==
    IF rec.mnemonic \in {"b", "bl"} THEN [n |-> 26, lo |-> 0]
    ELSE IF rec.type \in {"TBZ", "TBNZ"} THEN [n |-> 14, lo |-> 5]
    ELSE [n |-> 19, lo |-> 5]

\* Four times the two's-complement value of the offset field.
BranchOffset(w, rec) ==
    LET n == OffsetBits(rec).n
        v == FieldOf(w, OffsetBits(rec).lo, OffsetBits(rec).lo + n - 1)
    IN  4 * (IF v >= 2^(n - 1) THEN v - 2^n ELSE v)

TimesSmall(x, k) ==
    LET p1 == x[1] * k
        p2 == x[2] * k + (p1 \div 2^16)
        p3 == x[3] * k + (p2 \div 2^16)
        p4 == x[4] * k + (p3 \div 2^16)
    IN  <<p1 % 2^16, p2 % 2^16, p3 % 2^16, p4 % 2^16>>

\* The two's-complement value of an n-bit field value v.
Signed(v, n) == IF v >= 2^(n - 1) THEN v - 2^n ELSE v

\* An address with its low 12 bits cleared.
PageOf(a) == <<a[1] - (a[1] % 2^12), a[2], a[3], a[4]>>

\* C11: for every ADR/ADRP word and every address the decoded imm is
\* sign_extend(imm21, 21) for ADR and sign_extend(imm21, 21) * 4096 for ADRP,
\* imm21 = (immhi << 2) | immlo, rd_class is X, and the target reported for
\* the record is the address the instruction produces: address + imm for
\* ADR, the address with its low 12 bits cleared plus imm for ADRP.
C11_PcRelAddress ==
    \A t \in Active :
        (pc[t] = "done" /\ ret[t] = TRUE /\ Rec(t).type \in {"ADR", "ADRP"})
            => LET imm21 == 4 * FieldOf(inst[t], 5, 23)
                              + FieldOf(inst[t], 29, 30)
                   off == ToI64(Signed(imm21, 21))
                   adrp == Rec(t).type = "ADRP"
               IN  /\ adrp <=> BitOf(inst[t], 31) = 1
                   /\ Rec(t).imm = IF adrp THEN TimesSmall(off, 2^12) ELSE off
                   /\ Rec(t).rd_type = "X"
                   /\ bt[t] # "false"
                   /\ bt[t] = "true"
                         => IsSum64(IF adrp THEN PageOf(address[t])
                                            ELSE address[t],
                                    Rec(t).imm, target[t])

\* The decoders that returned true in the call just finished: the leaf that
\* accepted the word and the dispatchers above it.
AcceptedBy(t) ==
    {TableOf(walks[t][n].table)[Len(walks[t][n].log)].decoder :
        n \in {m \in DOMAIN walks[t] : walks[t][m].ok}}

\* The load/store decoders whose encoding has a base-register field.
BaseRegDecoders ==
    {"decode_load_store_exclusive", "decode_cas", "decode_atomic_memory_ops",
     "decode_ls_pair", "decode_ls_unsigned_imm", "decode_ls_reg_offset",
     "decode_ls_unscaled_imm"}

BaseRegRule(w, rec) ==
    /\ rec.rn = FieldOf(w, 5, 9)
    /\ rec.rn_type = IF FieldOf(w, 5, 9) = 31 THEN "SP" ELSE "X"

\* C12: for every word accepted by a load/store decoder that has a
\* base-register field (exclusive, CAS, atomic, pair, unsigned-immediate,
\* register-offset, unscaled/indexed), rn is bits[9:5] of the word and
\* rn_class is SP when that field is 31 and X otherwise.
C12_BaseRegister ==
    \A t \in Active :
        pc[t] = "done" =>
            /\ AcceptedBy(t) \cap BaseRegDecoders # {}
                  => BaseRegRule(inst[t], Rec(t))
            /\ LET c == decode_cas(inst[t], address[t],
                                   init_disasm_inst(ZeroInst, inst[t],
                                                    address[t]))
               IN  (CasLayout(inst[t]) /\ c.ok) => BaseRegRule(inst[t], c.r)

\* A pair word whose base register is the stack pointer has been decoded.
C12_Witness ==
    \E t \in Active :
        /\ pc[t] = "done"
        /\ "decode_ls_pair" \in AcceptedBy(t)
        /\ Rec(t).rn = 31
        /\ Rec(t).rn_type = "SP"

\* The kind of a conditional-select word, from its op, op2, Rm, Rn and cond
\* fields.
CondSelectKind(op, op2, rm, rn, c) ==
    LET both31 == rm = 31 /\ rn = 31
        same == rm = rn /\ c \notin {14, 15}
    IN  CASE op = 0 /\ op2 = 0 -> "CSEL"
          [] op = 0 /\ op2 = 1 ->
                IF both31 THEN "CSET" ELSE IF same THEN "CINC" ELSE "CSINC"
          [] op = 1 /\ op2 = 0 ->
                IF both31 THEN "CSETM" ELSE IF same THEN "CINV" ELSE "CSINV"
          [] OTHER -> IF same THEN "CNEG" ELSE "CSNEG"

AddSubImmLayout(w) == FieldOf(w, 24, 28) = 17

\* C14: when an ADD-immediate word is rewritten to MOV (to/from SP), the
\* source slot rm is Rn and carries the register class of Rn, so for Rn = 31
\* the source is SP; 0x910003FD is mov x29, sp with rd = 29, rm = 31,
\* rm_class SP.
C14_MovSpSource ==
    \A t \in Active :
        (/\ pc[t] = "done"
         /\ ret[t] = TRUE
         /\ AddSubImmLayout(inst[t])
         /\ Rec(t).type = "MOV")
            => /\ Rec(t).rd = FieldOf(inst[t], 0, 4)
               /\ Rec(t).rm = FieldOf(inst[t], 5, 9)
               /\ Rec(t).rm_type = Rec(t).rn_type
               /\ FieldOf(inst[t], 5, 9) = 31 => Rec(t).rm_type = "SP"

\* C15: an ADD-immediate word with S = 0, imm12 = 0, shift = 0 in which
\* neither Rd nor Rn is 31 (0x91000000, add x0, x0, #0) decodes to kind ADD
\* with has_imm set and imm = 0: only moves to or from SP become MOV.
C15_AddZeroStaysAdd ==
    \A t \in Active :
        (/\ pc[t] = "done"
         /\ AddSubImmLayout(inst[t])
         /\ FieldOf(inst[t], 29, 30) = 0
         /\ FieldOf(inst[t], 10, 23) = 0
         /\ FieldOf(inst[t], 0, 4) # 31
         /\ FieldOf(inst[t], 5, 9) # 31)
            => /\ ret[t] = TRUE
               /\ Rec(t).type = "ADD"
               /\ Rec(t).has_imm = TRUE
               /\ Rec(t).imm = <<0, 0, 0, 0>>

\* (word & 0x1F800000) = 0x12000000: logical (immediate).
LogicalImmLayout(w) == FieldOf(w, 23, 28) = 36

\* (word & 0x1F000000) = 0x0A000000: logical (shifted register).
LogicalRegLayout(w) == FieldOf(w, 24, 28) = 10

\* C16: a logical ANDS word, immediate or shifted-register, with Rd = 31
\* decodes to the kind TST (not AND), just as ORR with Rn = 31 (in the
\* register form: unshifted, not inverted) decodes to the kind MOV.
C16_TstKind ==
    \A t \in Active :
        pc[t] = "done" =>
            LET w == inst[t]
                opc == FieldOf(w, 29, 30)
                N == BitOf(w, 21)
                form == LogicalImmLayout(w) \/ (LogicalRegLayout(w) /\ N = 0)
                unshifted == LogicalImmLayout(w)
                             \/ (FieldOf(w, 10, 15) = 0
                                 /\ FieldOf(w, 22, 23) = 0)
            IN  /\ (form /\ ret[t] = TRUE /\ opc = 3 /\ FieldOf(w, 0, 4) = 31)
                      => Rec(t).type = "TST"
                /\ (form /\ ret[t] = TRUE /\ opc = 1 /\ FieldOf(w, 5, 9) = 31
                         /\ unshifted)
                      => Rec(t).type = "MOV"

\* (word & 0x1F200000) = 0x0B000000: add/sub (shifted register).
AddSubRegLayout(w) == FieldOf(w, 24, 28) = 11 /\ BitOf(w, 21) = 0

\* C17: for add/sub shifted-register words with S = 0: when op = 1 and
\* Rn = 31 the mnemonic is neg and neither rn_class nor rd_class is SP; in
\* every other case a 31 in Rn or Rd gives that slot the class SP; shift = 3
\* is rejected.
C17_NegAndSp ==
    \A t \in Active :
        (pc[t] = "done" /\ AddSubRegLayout(inst[t]) /\ BitOf(inst[t], 29) = 0)
            => LET op == BitOf(inst[t], 30)
                   rn == FieldOf(inst[t], 5, 9)
                   rd == FieldOf(inst[t], 0, 4)
               IN  IF FieldOf(inst[t], 22, 23) = 3
                   THEN /\ ret[t] = FALSE
                        /\ "decode_add_sub_shifted_reg" \notin AcceptedBy(t)
                   ELSE /\ ret[t] = TRUE
                        /\ IF op = 1 /\ rn = 31
                           THEN /\ Rec(t).mnemonic = "neg"
                                /\ Rec(t).rn_type # "SP"
                                /\ Rec(t).rd_type # "SP"
                           ELSE /\ rn = 31 => Rec(t).rn_type = "SP"
                                /\ rd = 31 => Rec(t).rd_type = "SP"

\* bits[31:22] = 1101010100: system words.
SystemLayout(w) == FieldOf(w, 22, 31) = 852

HintNames == <<"nop", "yield", "wfe", "wfi", "sev", "sevl">>

\* C18: a system word is decoded as a hint of kind NOP only if L = 0, op0 = 0,
\* op1 = 3, CRn = 2, CRm = 0, Rt = 31 and op2 is in 0..5, and then its
\* mnemonic is the op2-th of nop, yield, wfe, wfi, sev, sevl.
C18_HintOnlyIf ==
    \A t \in Active :
        (pc[t] = "done" /\ SystemLayout(inst[t]) /\ ret[t]
                /\ Rec(t).type = "NOP")
            => /\ BitOf(inst[t], 21) = 0
               /\ FieldOf(inst[t], 19, 20) = 0
               /\ FieldOf(inst[t], 16, 18) = 3
               /\ FieldOf(inst[t], 12, 15) = 2
               /\ FieldOf(inst[t], 8, 11) = 0
               /\ FieldOf(inst[t], 0, 4) = 31
               /\ FieldOf(inst[t], 5, 7) <= 5
               /\ Rec(t).mnemonic = HintNames[FieldOf(inst[t], 5, 7) + 1]

\* (word & 0x3A000000) = 0x28000000: load/store pair.
PairLayout(w) == FieldOf(w, 27, 29) = 5 /\ BitOf(w, 25) = 0

PairScale(w) ==
    LET opc == FieldOf(w, 30, 31)
    IN  IF BitOf(w, 26) = 0
        THEN (IF opc = 2 THEN 8 ELSE 4)
        ELSE (CASE opc = 0 -> 4 [] opc = 1 -> 8 [] OTHER -> 16)

PairRejected(w) ==
    \/ FieldOf(w, 23, 24) = 0
    \/ /\ BitOf(w, 26) = 0
       /\ \/ FieldOf(w, 30, 31) = 1 /\ BitOf(w, 22) = 0
          \/ FieldOf(w, 30, 31) = 3

\* C19: for load/store pair words idx 1/2/3 give PostIndex/ImmSigned/PreIndex
\* and idx 0 is rejected; imm is the sign-extended imm7 times the scale (4 for
\* 32-bit general pairs and LDPSW, 8 for 64-bit general pairs, 4/8/16 for
\* S/D/Q pairs); general-register opc = 1 with L = 0 and opc = 3 are rejected;
\* 0xA9BF7BFD is STP with rd = 29, rt2 = 30, rn = 31 (SP), imm = -16,
\* PreIndex.
C19_PairDecode ==
    \A t \in Active :
        (pc[t] = "done" /\ PairLayout(inst[t]))
            => LET w == inst[t]
                   idx == FieldOf(w, 23, 24)
                   simd == BitOf(w, 26) = 1
               IN  /\ PairRejected(w)
                        => /\ ret[t] = FALSE
                           /\ "decode_ls_pair" \notin AcceptedBy(t)
                   /\ (~PairRejected(w) /\ ~(simd /\ FieldOf(w, 30, 31) = 3))
                        => /\ ret[t] = TRUE
                           /\ Rec(t).type =
                                IF BitOf(w, 22) = 1 THEN "LDP" ELSE "STP"
                           /\ Rec(t).addr_mode =
                                CASE idx = 1 -> "POST_INDEX"
                                  [] idx = 2 -> "IMM_SIGNED"
                                  [] OTHER -> "PRE_INDEX"
                           /\ Rec(t).has_imm
                           /\ Rec(t).imm =
                                TimesSmall(ToI64(Signed(FieldOf(w, 15, 21), 7)),
                                           PairScale(w))
                           /\ simd => Rec(t).rd_type =
                                        CASE FieldOf(w, 30, 31) = 0 -> "S"
                                          [] FieldOf(w, 30, 31) = 1 -> "D"
                                          [] OTHER -> "Q"
                   /\ w = W(\hA9BF, \h7BFD)
                        => /\ Rec(t).type = "STP"
                           /\ Rec(t).rd = 29 /\ Rec(t).rt2 = 30
                           /\ Rec(t).rn = 31 /\ Rec(t).rn_type = "SP"
                           /\ Rec(t).rd_type = "X"
                           /\ Rec(t).imm = ToI64(-16)
                           /\ Rec(t).addr_mode = "PRE_INDEX"

C19_Witness ==
    \E t \in Active :
        /\ pc[t] = "done" /\ ret[t]
        /\ inst[t] = W(\hA9BF, \h7BFD)
        /\ "decode_ls_pair" \in AcceptedBy(t)
        /\ Rec(t).type = "STP" /\ Rec(t).addr_mode = "PRE_INDEX"
        /\ Rec(t).imm = ToI64(-16)

\* (word & 0x3B000000) = 0x39000000: load/store register (unsigned offset).
UnsignedImmLayout(w) == FieldOf(w, 27, 29) = 7 /\ FieldOf(w, 24, 25) = 1

\* The general-register forms by size and opc: opc 0 stores and opc 1 loads
\* size bytes zero-extended, opc 2 loads sign-extended to 64 bits and opc 3
\* to 32 bits; "" where no such form exists.
GprLsKind(size, opc) ==
    LET suffix == CASE size = 0 -> "B" [] size = 1 -> "H" [] OTHER -> ""
    IN  CASE opc = 0 -> "STR" \o suffix
          [] opc = 1 -> "LDR" \o suffix
          [] opc = 2 -> (CASE size = 0 -> "LDRSB" [] size = 1 -> "LDRSH"
                           [] size = 2 -> "LDRSW" [] OTHER -> "")
          [] OTHER -> (CASE size = 0 -> "LDRSB" [] size = 1 -> "LDRSH"
                         [] OTHER -> "")

GprLsClass(size, opc) ==
    IF opc = 2 \/ (opc <= 1 /\ size = 3) THEN "X" ELSE "W"

\* C20: for unsigned-immediate load/store words imm = imm12 * 2^size (never
\* negative, at most 4095 * 2^size) and addr_mode is ImmUnsigned; the
\* general-register kind and destination class follow the (size << 2) | opc
\* table, whose missing indices 0x0B, 0x0E and 0x0F are rejected; 0xF9400421
\* is LDR with rd = 1, rn = 1, imm = 8.
C20_UnsignedImmDecode ==
    \A t \in Active :
        (pc[t] = "done" /\ UnsignedImmLayout(inst[t]))
            => LET w == inst[t]
                   size == FieldOf(w, 30, 31)
                   opc == FieldOf(w, 22, 23)
                   gpr == BitOf(w, 26) = 0
               IN  /\ (gpr /\ size * 4 + opc \in {11, 14, 15})
                        => /\ ret[t] = FALSE
                           /\ "decode_ls_unsigned_imm" \notin AcceptedBy(t)
                   /\ (gpr /\ size * 4 + opc \notin {11, 14, 15})
                        => /\ ret[t] = TRUE
                           /\ Rec(t).type = GprLsKind(size, opc)
                           /\ Rec(t).rd_type = GprLsClass(size, opc)
                   /\ ret[t]
                        => /\ "decode_ls_unsigned_imm" \in AcceptedBy(t)
                           /\ Rec(t).addr_mode = "IMM_UNSIGNED"
                           /\ Rec(t).has_imm
                           /\ Rec(t).imm =
                                ToI64(FieldOf(w, 10, 21) * 2^size)
                           /\ Rec(t).imm[3] = 0 /\ Rec(t).imm[4] = 0
                   /\ w = W(\hF940, \h0421)
                        => /\ Rec(t).type = "LDR"
                           /\ Rec(t).rd = 1 /\ Rec(t).rn = 1
                           /\ Rec(t).rn_type = "X" /\ Rec(t).rd_type = "X"
                           /\ Rec(t).imm = ToI64(8)

C20_Witness ==
    \E t \in Active :
        /\ pc[t] = "done" /\ ret[t]
        /\ inst[t] = W(\hF940, \h0421)
        /\ "decode_ls_unsigned_imm" \in AcceptedBy(t)
        /\ Rec(t).type = "LDR" /\ Rec(t).imm = ToI64(8)

\* C21: the compare-and-swap decoder marks acquire by bit 22 (suffix "a",
\* is_acquire) and release by bit 15 (suffix "l", is_release), both giving
\* "al", followed by "b"/"h" for size 0/1; 0xC8E07C20 is casa, 0xC8A0FC20 is
\* casl and 0xC8E0FC20 is casal.
C21_CasSuffixes ==
    \A t \in Active :
        (pc[t] = "done" /\ CasLayout(inst[t]))
            => LET w == inst[t]
                   c == decode_cas(w, address[t],
                                   init_disasm_inst(ZeroInst, w, address[t]))
                   acq == BitOf(w, 22) = 1
                   rel == BitOf(w, 15) = 1
                   size == FieldOf(w, 30, 31)
               IN  /\ c.ok
                   /\ c.r.is_acquire = acq
                   /\ c.r.is_release = rel
                   /\ c.r.mnemonic =
                        "cas" \o (IF acq THEN "a" ELSE "")
                              \o (IF rel THEN "l" ELSE "")
                              \o (CASE size = 0 -> "b" [] size = 1 -> "h"
                                    [] OTHER -> "")
                   /\ w = W(\hC8E0, \h7C20) => c.r.mnemonic = "casa"
                   /\ w = W(\hC8A0, \hFC20) => c.r.mnemonic = "casl"
                   /\ w = W(\hC8E0, \hFC20) => c.r.mnemonic = "casal"

\* (word & 0x3B200C00) = 0x38200000: atomic memory operations.
AtomicLayout(w) ==
    /\ FieldOf(w, 27, 29) = 7 /\ FieldOf(w, 24, 25) = 0
    /\ BitOf(w, 21) = 1 /\ FieldOf(w, 10, 11) = 0

AtomicKinds ==
    <<"LDADD", "LDCLR", "LDEOR", "LDSET", "LDSMAX", "LDSMIN", "LDUMAX",
      "LDUMIN">>

AtomicNames ==
    [k \in {"LDADD", "LDCLR", "LDEOR", "LDSET", "LDSMAX", "LDSMIN", "LDUMAX",
            "LDUMIN", "SWP"} |->
        CASE k = "LDADD" -> "ldadd" [] k = "LDCLR" -> "ldclr"
          [] k = "LDEOR" -> "ldeor" [] k = "LDSET" -> "ldset"
          [] k = "LDSMAX" -> "ldsmax" [] k = "LDSMIN" -> "ldsmin"
          [] k = "LDUMAX" -> "ldumax" [] k = "LDUMIN" -> "ldumin"
          [] OTHER -> "swp"]

MoreSpecific(table, j, k) ==
    /\ RowBits[table][k].mask \subseteq RowBits[table][j].mask
    /\ RowBits[table][k].mask # RowBits[table][j].mask

\* The rows after the accepting row of a finished walk that match the word
\* too and whose decoder the walk never called, although the accepting row is
\* not more specific than they are.
ShadowedRows(bits, wk) ==
    IF ~wk.ok THEN {}
    ELSE {k \in DOMAIN TableOf(wk.table) :
             /\ k > Len(wk.log)
             /\ RowMatches(bits, wk.table, k)
             /\ \A j \in DOMAIN wk.log :
                   wk.log[j].called =>
                       TableOf(wk.table)[j].decoder
                           # TableOf(wk.table)[k].decoder
             /\ ~MoreSpecific(wk.table, Len(wk.log), k)}

\* C23: in the tables disassemble_arm64 walks no row is shadowed: a word that
\* satisfies a row's mask and value is offered to that row's decoder, unless
\* an earlier row that accepted the word is more specific than the row.
C23_NoRowShadowed ==
    \A t \in Active :
        pc[t] = "done" =>
            \A n \in DOMAIN walks[t] :
                ShadowedRows(BitsSet(inst[t]), walks[t][n]) = {}

\* C24: when disassemble_arm64 returns false, every field of the record other
\* than raw and address holds its initial default (slots, classes, imm,
\* shift_amount, addressing mode and flags zero/false, kind UNKNOWN, mnemonic
\* "unknown"): a rejecting decoder leaves no partial writes.
C24_RejectedIsDefault ==
    \A t \in Active :
        (pc[t] = "done" /\ ret[t] = FALSE)
            => Rec(t) = [ZeroInst EXCEPT !.raw = inst[t],
                                         !.address = address[t],
                                         !.type = "UNKNOWN",
                                         !.mnemonic = "unknown"]

\* The category decoders that accept a word, each run on a fresh record.
AcceptingCategories(w, addr) ==
    LET r0 == init_disasm_inst(ZeroInst, w, addr)
    IN  {c \in {"branch", "data_proc_imm", "data_proc_reg", "load_store",
                "fp_simd"} :
            CASE c = "branch" -> decode_branch(w, addr, r0).ok
              [] c = "data_proc_imm" -> decode_data_proc_imm(w, addr, r0).ok
              [] c = "data_proc_reg" -> decode_data_proc_reg(w, addr, r0).ok
              [] c = "load_store" -> decode_load_store(w, addr, r0).ok
              [] OTHER -> decode_fp_simd(w, addr, r0).ok}

\* C25: the category decoders accept pairwise-disjoint sets of words: at most
\* one of decode_branch, decode_data_proc_imm, decode_data_proc_reg,
\* decode_load_store and decode_fp_simd returns true for a word.
C25_CategoriesDisjoint ==
    \A t \in Active :
        pc[t] = "done" =>
            Cardinality(AcceptingCategories(inst[t], address[t])) <= 1

\* A word that decode_fp_simd accepts, and no other category decoder, has
\* been decoded.
C25_Witness ==
    \E t \in Active :
        /\ pc[t] = "done"
        /\ AcceptingCategories(inst[t], address[t]) = {"fp_simd"}

\* The walks of a call that came after its failed top-level walk: those of
\* the fallback chain.
FallbackWalks(t) ==
    {m \in DOMAIN walks[t] :
        \E n \in DOMAIN walks[t] :
            /\ n < m
            /\ walks[t][n].table = "top_level_decode_table"
            /\ ~walks[t][n].ok}

\* C26: the fallback chain of disassemble_arm64 never rescues a word: when
\* the top-level table pass returns false, each of decode_branch,
\* decode_data_proc_imm, decode_data_proc_reg and decode_load_store called
\* afterwards returns false too.
C26_FallbackNeverRescues ==
    \A t \in Active :
        \A m \in FallbackWalks(t) : ~walks[t][m].ok

\* A call whose top-level pass failed has gone through the whole fallback
\* chain.
C26_Witness ==
    \E t \in Active :
        /\ pc[t] = "done"
        /\ {walks[t][m].table : m \in FallbackWalks(t)}
              = {"branch_decode_table", "data_proc_imm_decode_table",
                 "data_proc_reg_decode_table", "load_store_decode_table"}

\* The rows gone through by a sequence of walks, finished or in progress.
RECURSIVE RowsIn(_)
RowsIn(ws) ==
    IF ws = <<>> THEN 0 ELSE Len(ws[1].log) + RowsIn(Tail(ws))

\* The table rows whose mask and value the current call of a thread has
\* compared so far.
RowsCompared(t) == RowsIn(walks[t]) + RowsIn(stack[t])

\* C27: every call of disassemble_arm64 terminates, and the rows compared
\* during it (top-level pass, the category tables it dispatches to and the
\* fallback chain together) number at most 70.
C27_TerminatesWithin70Rows ==
    /\ [](\A t \in Active : RowsCompared(t) <= 70)
    /\ \A t \in Threads : (pc[t] = "table") ~> (pc[t] = "done")

\* A call has returned after the top-level pass, both load/store rows and the
\* whole fallback chain: 47 rows.
C27_Witness ==
    \E t \in Active :
        /\ pc[t] = "done"
        /\ ret[t] = FALSE
        /\ RowsCompared(t) = 47

\* (word & 0x1F800000) = 0x13000000: bitfield.
BitfieldLayout(w) == FieldOf(w, 23, 28) = 38

\* C28: for bitfield words with N = sf a shift kind is reported only when its
\* alias condition holds: ASR only for opc = 0 with immr # 0 and imms = max,
\* LSR only for opc = 2 with imms = max, LSL only for opc = 2 with immr = 0
\* and imms < max (max = 63 if sf, else 31); a non-alias SBFM, BFM or UBFM is
\* never reported with kind LSL, LSR or ASR.
C28_ShiftKindOnlyForAlias ==
    \A t \in Active :
        (pc[t] = "done" /\ ret[t] /\ BitfieldLayout(inst[t])
                /\ BitOf(inst[t], 22) = BitOf(inst[t], 31))
            => LET w == inst[t]
                   opc == FieldOf(w, 29, 30)
                   immr == FieldOf(w, 16, 21)
                   imms == FieldOf(w, 10, 15)
                   max == IF BitOf(w, 31) = 1 THEN 63 ELSE 31
               IN  /\ Rec(t).type = "ASR"
                        => (opc = 0 /\ immr # 0 /\ imms = max)
                   /\ Rec(t).type = "LSR" => (opc = 2 /\ imms = max)
                   /\ Rec(t).type = "LSL"
                        => (opc = 2 /\ immr = 0 /\ imms < max)
                   /\ Rec(t).mnemonic \in {"sbfm", "bfm", "ubfm"}
                        => Rec(t).type \notin {"LSL", "LSR", "ASR"}

\* A base mnemonic with and without its b/h size suffix.
Sized(names) == {n \o x : n \in names, x \in {"", "b", "h"}}

AcquireForms == Sized({"ldaxr", "ldaxp", "ldar"})

ReleaseForms == Sized({"stlxr", "stlxp", "stlr"})

\* C29: for every word the exclusive/ordered load-store decoder accepts,
\* is_acquire is true exactly when the mnemonic is an acquire form (ldaxr,
\* ldaxp, ldar, with or without b/h) and is_release exactly when it is a
\* release form (stlxr, stlxp, stlr, with or without b/h).
C29_OrderFlagsMatchMnemonic ==
    \A t \in Active :
        (pc[t] = "done" /\ "decode_load_store_exclusive" \in AcceptedBy(t))
            => /\ Rec(t).is_acquire <=> Rec(t).mnemonic \in AcquireForms
               /\ Rec(t).is_release <=> Rec(t).mnemonic \in ReleaseForms

\* The register numbers get_used_registers has reported.
Reported == {used.regs[i] : i \in 1..used.count}

\* C30: get_used_registers, called with max_count >= 1 on any record, sets
\* *count to at most min(max_count, 4), writes only regs[0..*count-1],
\* reports no register number twice, and reports 31 only for a slot whose
\* class is SP (rt2 taking the class of rd, as the second register of a pair).
C30_UsedRegisters ==
    \A t \in Active :
        (used.phase = "called" /\ used.max_count >= 1)
            => /\ used.count <= 4
               /\ used.count <= used.max_count
               /\ \A i \in 1..RegBufLen :
                     i > used.count => used.regs[i] = used.before[i]
               /\ \A i, j \in 1..used.count :
                     used.regs[i] = used.regs[j] => i = j
               /\ 31 \in Reported
                     => \/ Rec(t).rd = 31 /\ Rec(t).rd_type = "SP"
                        \/ Rec(t).rn = 31 /\ Rec(t).rn_type = "SP"
                        \/ Rec(t).rm = 31 /\ Rec(t).rm_type = "SP"
                        \/ Rec(t).rt2 = 31 /\ Rec(t).rd_type = "SP"

\* Four registers, the stack pointer among them, have been reported into a
\* buffer with room for more.
C30_Witness ==
    \E t \in Active :
        /\ used.phase = "called"
        /\ used.count = 4
        /\ 31 \in Reported
        /\ used.max_count > 4

====
